---- MODULE Spec2Model ----
(***************************************************************************)
(* State-machine model of the IT Glue MCP server (src/src/index.ts):       *)
(* the API client, the credential resolver, the call-tool dispatcher and   *)
(* the stdio / HTTP transports with ambient and gateway credential modes.  *)
(***************************************************************************)
EXTENDS Integers, Sequences, FiniteSets, TLC

----------------------------------------------------------------------------
(* Bounds of the model. *)

\* number of HTTP requests that may be in flight at the same time
MaxReqs == 2
\* number of arguments a tool invocation supplies
MaxArgs == 2
\* length of the longest string given to the case converters
MaxLen == 3

Slots == 1..MaxReqs

----------------------------------------------------------------------------
(* JavaScript values: <<typeof, String(value)>>. *)

Undefined == <<"undefined", "undefined">>
Null == <<"null", "null">>
JsFalse == <<"boolean", "false">>
JsTrue == <<"boolean", "true">>
Num(s) == <<"number", s>>
Str(s) == <<"string", s>>

\* ToBoolean of the values above
Truthy(v) == v \notin {Undefined, Null, JsFalse, Num("0"), Str("")}

\* String(value) / template-literal interpolation
String(v) == v[2]

\* a || b
Or(a, b) == IF Truthy(a) THEN a ELSE b

----------------------------------------------------------------------------
(* Strings that the code rewrites character by character are sequences of  *)
(* one-character strings; Join turns such a sequence into a string.        *)

Lower == <<"a","b","c","d","e","f","g","h","i","j","k","l","m",
           "n","o","p","q","r","s","t","u","v","w","x","y","z">>
Upper == <<"A","B","C","D","E","F","G","H","I","J","K","L","M",
           "N","O","P","Q","R","S","T","U","V","W","X","Y","Z">>

UpperCase == {Upper[i] : i \in 1..26}
LowerCase == {Lower[i] : i \in 1..26}
LowerOf == [c \in UpperCase |-> Lower[CHOOSE i \in 1..26 : Upper[i] = c]]
UpperOf == [c \in LowerCase |-> Upper[CHOOSE i \in 1..26 : Lower[i] = c]]

IsUpper(c) == c \in UpperCase
IsLower(c) == c \in LowerCase
toLowerCase(c) == IF IsUpper(c) THEN LowerOf[c] ELSE c
toUpperCase(c) == IF IsLower(c) THEN UpperOf[c] ELSE c

\* the string made of the characters cs[i], cs[i+1], ...
RECURSIVE JoinFrom(_, _)
JoinFrom(cs, i) == IF i > Len(cs) THEN "" ELSE cs[i] \o JoinFrom(cs, i + 1)

Join(cs) == JoinFrom(cs, 1)

\* the replacement of str from position i on
RECURSIVE kebabToCamelFrom(_, _)
kebabToCamelFrom(str, i) ==
  IF i > Len(str) THEN <<>>
  ELSE IF str[i] = "-" /\ i < Len(str) /\ IsLower(str[i + 1])
       THEN <<toUpperCase(str[i + 1])>> \o kebabToCamelFrom(str, i + 2)
       ELSE <<str[i]>> \o kebabToCamelFrom(str, i + 1)

\* variant: the first letter is capitalised as well
kebabToCamel_pascal(str) ==
  IF str # <<>> /\ IsLower(str[1])
  THEN <<toUpperCase(str[1])>> \o kebabToCamelFrom(str, 2)
  ELSE kebabToCamelFrom(str, 1)

\* str.replace(/-([a-z])/g, (_, letter) => letter.toUpperCase())
kebabToCamel(str) == kebabToCamelFrom(str, 1)

RECURSIVE camelToKebabFrom(_, _)
camelToKebabFrom(str, i) ==
  IF i > Len(str) THEN <<>>
  ELSE IF IsUpper(str[i])
       THEN <<"-", toLowerCase(str[i])>> \o camelToKebabFrom(str, i + 1)
       ELSE <<str[i]>> \o camelToKebabFrom(str, i + 1)

\* variant: uppercase letters are lowered without a hyphen
camelToKebab_lowering(str) == [i \in 1..Len(str) |-> toLowerCase(str[i])]

\* str.replace(/[A-Z]/g, (letter) => `-${letter.toLowerCase()}`)
camelToKebab(str) == camelToKebabFrom(str, 1)

\* the filter keys the dispatcher assigns (filter.organizationTypeId = ...)
K_name == <<"n", "a", "m", "e">>
K_organizationTypeId == <<"o", "r", "g", "a", "n", "i", "z", "a", "t", "i", "o", "n", "T", "y", "p", "e", "I", "d">>
K_organizationStatusId == <<"o", "r", "g", "a", "n", "i", "z", "a", "t", "i", "o", "n", "S", "t", "a", "t", "u", "s", "I", "d">>
K_psaId == <<"p", "s", "a", "I", "d">>
K_organizationId == <<"o", "r", "g", "a", "n", "i", "z", "a", "t", "i", "o", "n", "I", "d">>
K_configurationTypeId == <<"c", "o", "n", "f", "i", "g", "u", "r", "a", "t", "i", "o", "n", "T", "y", "p", "e", "I", "d">>
K_configurationStatusId == <<"c", "o", "n", "f", "i", "g", "u", "r", "a", "t", "i", "o", "n", "S", "t", "a", "t", "u", "s", "I", "d">>
K_serialNumber == <<"s", "e", "r", "i", "a", "l", "N", "u", "m", "b", "e", "r">>
K_rmmId == <<"r", "m", "m", "I", "d">>
K_passwordCategoryId == <<"p", "a", "s", "s", "w", "o", "r", "d", "C", "a", "t", "e", "g", "o", "r", "y", "I", "d">>
K_url == <<"u", "r", "l">>
K_username == <<"u", "s", "e", "r", "n", "a", "m", "e">>
K_flexibleAssetTypeId == <<"f", "l", "e", "x", "i", "b", "l", "e", "A", "s", "s", "e", "t", "T", "y", "p", "e", "I", "d">>

----------------------------------------------------------------------------
(* API client. *)

REGION_URLS(region) ==
  CASE region = Str("us") -> Str("https://api.itglue.com")
    [] region = Str("eu") -> Str("https://api.eu.itglue.com")
    [] region = Str("au") -> Str("https://api.au.itglue.com")
    [] OTHER -> Undefined

\* variant: the region table is preferred over config.baseUrl
ITGlueClient_regionFirst(config) ==
  [apiKey |-> config.apiKey,
   baseUrl |-> Or(REGION_URLS(Or(config.region, Str("us"))), config.baseUrl)]

\* new ITGlueClient(config)
ITGlueClient(config) ==
  [apiKey |-> config.apiKey,
   baseUrl |-> Or(config.baseUrl, REGION_URLS(Or(config.region, Str("us"))))]

\* result[k] = v on an object kept as a sequence of <<key, value>> entries:
\* an existing key keeps its position, a new key is appended
Put(obj, k, v) ==
  IF \E i \in 1..Len(obj) : obj[i][1] = k
  THEN [i \in 1..Len(obj) |-> IF obj[i][1] = k THEN <<k, v>> ELSE obj[i]]
  ELSE Append(obj, <<k, v>>)

\* filter: sequence of <<camelCase key (characters), value>>
RECURSIVE buildFilterParamsInto(_, _)
buildFilterParamsInto(result, filter) ==
  IF filter = <<>> THEN result
  ELSE LET key == Head(filter)[1]
           value == Head(filter)[2]
       IN IF value # Undefined /\ value # Null
          THEN buildFilterParamsInto(
                 Put(result, Join(camelToKebab(key)), String(value)), Tail(filter))
          ELSE buildFilterParamsInto(result, Tail(filter))

buildFilterParams(filter) == buildFilterParamsInto(<<>>, filter)

\* entries of the params object, in insertion order
NoPage == [size |-> Undefined, number |-> Undefined]
FilterParam(f) == [key |-> "filter", typeof |-> "object", filter |-> f, page |-> NoPage, value |-> Undefined]
PageParam(pg) == [key |-> "page", typeof |-> "object", filter |-> <<>>, page |-> pg, value |-> Undefined]
ScalarParam(k, v) == [key |-> k, typeof |-> v[1], filter |-> <<>>, page |-> NoPage, value |-> v]

\* searchParams.append for one entry of params
appendParam(e) ==
  IF e.typeof \in {"undefined", "null"} THEN <<>>
  ELSE IF e.key = "filter" /\ e.typeof = "object"
  THEN LET filterParams == buildFilterParams(e.filter)
       IN [i \in 1..Len(filterParams) |->
             [name |-> "filter[" \o filterParams[i][1] \o "]", value |-> filterParams[i][2]]]
  ELSE IF e.key = "page" /\ e.typeof = "object"
  THEN (IF Truthy(e.page.size)
        THEN <<[name |-> "page[size]", value |-> String(e.page.size)]>> ELSE <<>>)
       \o
       (IF Truthy(e.page.number)
        THEN <<[name |-> "page[number]", value |-> String(e.page.number)]>> ELSE <<>>)
  ELSE IF e.typeof \in {"string", "number", "boolean"}
  THEN <<[name |-> e.key, value |-> String(e.value)]>>
  ELSE <<>>

\* the URLSearchParams list built from params (empty list: no "?..." suffix)
RECURSIVE buildQueryString(_)
buildQueryString(params) ==
  IF params = <<>> THEN <<>>
  ELSE appendParam(Head(params)) \o buildQueryString(Tail(params))

\* the fetch(url, init) call issued by client.request(path, params)
FetchCall(client, path, params) ==
  [method |-> "GET",
   url |-> [base |-> String(client.baseUrl), path |-> path, query |-> buildQueryString(params)],
   headers |-> [xApiKey |-> String(client.apiKey),
                contentType |-> "application/vnd.api+json",
                accept |-> "application/vnd.api+json"]]

----------------------------------------------------------------------------
(* Credential resolver. *)

\* variant: X_API_KEY is preferred over ITGLUE_API_KEY
getCredentialsFromEnv_secondaryFirst(e) ==
  [apiKey |-> Or(e.X_API_KEY, e.ITGLUE_API_KEY),
   region |-> Or(e.ITGLUE_REGION, Str("us")),
   baseUrl |-> e.ITGLUE_BASE_URL]

getCredentialsFromEnv(e) ==
  [apiKey |-> Or(e.ITGLUE_API_KEY, e.X_API_KEY),
   region |-> Or(e.ITGLUE_REGION, Str("us")),
   baseUrl |-> e.ITGLUE_BASE_URL]

\* if (!credentials.apiKey) throw new Error("No IT Glue API key provided")
createClientThrows(credentials) == ~Truthy(credentials.apiKey)

\* createClient(credentials) when it does not throw
createClient(credentials) ==
  ITGlueClient([apiKey |-> credentials.apiKey,
                region |-> Or(credentials.region, Str("us")),
                baseUrl |-> credentials.baseUrl])

----------------------------------------------------------------------------
(* Upstream answers and their normalisation by client.request. *)

\* a thrown value: an Error object with its message, or a non-Error value
\* with its String(...) form
ErrorObj(msg) == [instanceofError |-> TRUE, message |-> msg]
NonError(str) == [instanceofError |-> FALSE, message |-> str]
NoError == [instanceofError |-> FALSE, message |-> ""]

NoMeta == [present |-> FALSE, currentPage |-> Undefined, nextPage |-> Undefined,
           prevPage |-> Undefined, totalPages |-> Undefined, totalCount |-> Undefined]
NoEnvelope == [errors |-> [present |-> FALSE, list |-> <<>>],
               data |-> [shape |-> "missing", items |-> <<>>],
               meta |-> NoMeta]

\* fetch rejected with reason
Rejected(reason) ==
  [settle |-> "reject", reason |-> reason, status |-> 0, text |-> "",
   parses |-> FALSE, json |-> NoEnvelope]
\* fetch resolved with a Response of the given status whose body is bodyText;
\* parses tells whether response.json() succeeds, then with value json
Resolved(status, bodyText, parses, json) ==
  [settle |-> "resolve", reason |-> NoError, status |-> status, text |-> bodyText,
   parses |-> parses, json |-> json]

\* variant: redirect statuses count as ok too
ok_lenient(status) == status \in 200..399

\* response.ok
ok(status) == status \in 200..299

\* A value is <<typeof, text>> when it is a scalar, <<"object", entries>>
\* when it is a non-array object and <<"array", elements>> when it is an
\* array; the keys of raw objects are character sequences.

\* variant: nested objects are kept as they are
RECURSIVE convertKeysToCamelInto_shallow(_, _)
convertKeysToCamelInto_shallow(result, obj) ==
  IF obj = <<>> THEN result
  ELSE convertKeysToCamelInto_shallow(
         Put(result, Join(kebabToCamel(Head(obj)[1])), Head(obj)[2]), Tail(obj))

\* the loop of convertKeysToCamel over Object.entries(obj), result being the
\* object built so far
RECURSIVE convertKeysToCamelInto(_, _)
convertKeysToCamelInto(result, obj) ==
  IF obj = <<>> THEN result
  ELSE LET camelKey == Join(kebabToCamel(Head(obj)[1]))
           value == Head(obj)[2]
       IN convertKeysToCamelInto(
            Put(result, camelKey,
                IF value[1] = "object"
                THEN <<"object", convertKeysToCamelInto(<<>>, value[2])>>
                ELSE value),
            Tail(obj))

convertKeysToCamel(obj) == convertKeysToCamelInto(<<>>, obj)

\* Object.assign(target, source)
RECURSIVE ObjectAssign(_, _)
ObjectAssign(target, source) ==
  IF source = <<>> THEN target
  ELSE ObjectAssign(Put(target, Head(source)[1], Head(source)[2]), Tail(source))

\* resource: [id, type, hasAttributes, attributes]
deserializeResource(resource) ==
  LET result == << <<"id", resource.id>>, <<"type", resource.type>> >>
  IN IF resource.hasAttributes
     THEN ObjectAssign(result, convertKeysToCamel(resource.attributes))
     ELSE result

\* Array.prototype.join(", ") over e.detail || e.title
RECURSIVE joinErrors(_)
joinErrors(errors) ==
  IF errors = <<>> THEN ""
  ELSE LET m == Or(Head(errors).detail, Head(errors).title)
           piece == IF m \in {Undefined, Null} THEN "" ELSE String(m)
       IN IF Len(errors) = 1 THEN piece
          ELSE piece \o ", " \o joinErrors(Tail(errors))

Threw(error) == [threw |-> TRUE, error |-> error, data |-> <<>>,
                 meta |-> [currentPage |-> Undefined, nextPage |-> Undefined,
                           prevPage |-> Undefined, totalPages |-> Undefined,
                           totalCount |-> Undefined]]

\* variant: only the first resource of the data is returned
request_firstOnly(o) ==
  IF o.settle = "reject" THEN Threw(o.reason)
  ELSE IF ~ok(o.status)
  THEN Threw(ErrorObj("IT Glue API error (" \o ToString(o.status) \o "): " \o o.text))
  ELSE IF ~o.parses
  THEN Threw(ErrorObj("Unexpected token < in JSON at position 0"))
  ELSE IF o.json.errors.present /\ Len(o.json.errors.list) > 0
  THEN Threw(ErrorObj("IT Glue API error: " \o joinErrors(o.json.errors.list)))
  ELSE IF o.json.data.shape = "missing"
  THEN Threw(ErrorObj("Cannot read properties of undefined (reading 'id')"))
  ELSE LET items == o.json.data.items
           data == IF items = <<>> THEN <<>> ELSE <<deserializeResource(items[1])>>
           m == o.json.meta
       IN [threw |-> FALSE, error |-> NoError, data |-> data,
           meta |-> [currentPage |-> Or(m.currentPage, Num("1")),
                     nextPage |-> Or(m.nextPage, Null),
                     prevPage |-> Or(m.prevPage, Null),
                     totalPages |-> Or(m.totalPages, Num("1")),
                     totalCount |-> Or(m.totalCount, Num(ToString(Len(data))))]]

\* variant: totalCount defaults to 0
request_zeroCount(o) ==
  IF o.settle = "reject" THEN Threw(o.reason)
  ELSE IF ~ok(o.status)
  THEN Threw(ErrorObj("IT Glue API error (" \o ToString(o.status) \o "): " \o o.text))
  ELSE IF ~o.parses
  THEN Threw(ErrorObj("Unexpected token < in JSON at position 0"))
  ELSE IF o.json.errors.present /\ Len(o.json.errors.list) > 0
  THEN Threw(ErrorObj("IT Glue API error: " \o joinErrors(o.json.errors.list)))
  ELSE IF o.json.data.shape = "missing"
  THEN Threw(ErrorObj("Cannot read properties of undefined (reading 'id')"))
  ELSE LET items == o.json.data.items
           data == IF o.json.data.shape = "array"
                   THEN [i \in 1..Len(items) |-> deserializeResource(items[i])]
                   ELSE <<deserializeResource(items[1])>>
           m == o.json.meta
       IN [threw |-> FALSE, error |-> NoError, data |-> data,
           meta |-> [currentPage |-> Or(m.currentPage, Num("1")),
                     nextPage |-> Or(m.nextPage, Null),
                     prevPage |-> Or(m.prevPage, Null),
                     totalPages |-> Or(m.totalPages, Num("1")),
                     totalCount |-> Or(m.totalCount, Num("0"))]]

\* a ?? b
Nullish(a, b) == IF a \in {Undefined, Null} THEN b ELSE a

\* variant: the meta defaults replace only undefined and null (??)
request_nullish(o) ==
  IF o.settle = "reject" THEN Threw(o.reason)
  ELSE IF ~ok(o.status)
  THEN Threw(ErrorObj("IT Glue API error (" \o ToString(o.status) \o "): " \o o.text))
  ELSE IF ~o.parses
  THEN Threw(ErrorObj("Unexpected token < in JSON at position 0"))
  ELSE IF o.json.errors.present /\ Len(o.json.errors.list) > 0
  THEN Threw(ErrorObj("IT Glue API error: " \o joinErrors(o.json.errors.list)))
  ELSE IF o.json.data.shape = "missing"
  THEN Threw(ErrorObj("Cannot read properties of undefined (reading 'id')"))
  ELSE LET items == o.json.data.items
           data == IF o.json.data.shape = "array"
                   THEN [i \in 1..Len(items) |-> deserializeResource(items[i])]
                   ELSE <<deserializeResource(items[1])>>
           m == o.json.meta
       IN [threw |-> FALSE, error |-> NoError, data |-> data,
           meta |-> [currentPage |-> Nullish(m.currentPage, Num("1")),
                     nextPage |-> Nullish(m.nextPage, Null),
                     prevPage |-> Nullish(m.prevPage, Null),
                     totalPages |-> Nullish(m.totalPages, Num("1")),
                     totalCount |-> Nullish(m.totalCount, Num(ToString(Len(data))))]]

\* client.request after its fetch has settled with outcome o
request(o) ==
  IF o.settle = "reject" THEN Threw(o.reason)
  ELSE IF ~ok(o.status)
  THEN Threw(ErrorObj("IT Glue API error (" \o ToString(o.status) \o "): " \o o.text))
  ELSE IF ~o.parses
  THEN Threw(ErrorObj("Unexpected token < in JSON at position 0"))
  ELSE IF o.json.errors.present /\ Len(o.json.errors.list) > 0
  THEN Threw(ErrorObj("IT Glue API error: " \o joinErrors(o.json.errors.list)))
  ELSE IF o.json.data.shape = "missing"
  THEN Threw(ErrorObj("Cannot read properties of undefined (reading 'id')"))
  ELSE LET items == o.json.data.items
           data == IF o.json.data.shape = "array"
                   THEN [i \in 1..Len(items) |-> deserializeResource(items[i])]
                   ELSE <<deserializeResource(items[1])>>
           m == o.json.meta
       IN [threw |-> FALSE, error |-> NoError, data |-> data,
           meta |-> [currentPage |-> Or(m.currentPage, Num("1")),
                     nextPage |-> Or(m.nextPage, Null),
                     prevPage |-> Or(m.prevPage, Null),
                     totalPages |-> Or(m.totalPages, Num("1")),
                     totalCount |-> Or(m.totalCount, Num(ToString(Len(data))))]]

\* the value client.get resolves with: result.data[0]
first(data) == IF Len(data) > 0 THEN <<"object", data[1]>> ELSE <<"undefined", <<>>>>

----------------------------------------------------------------------------
(* Call-tool dispatcher. *)

ArgNames ==
  {"id", "name", "organization_id", "organization_type_id", "organization_status_id",
   "psa_id", "configuration_type_id", "configuration_status_id", "serial_number",
   "rmm_id", "password_category_id", "url", "username", "flexible_asset_type_id",
   "show_password", "sort", "page_size", "page_number"}

\* the tool names of the switch statement
ToolNames ==
  {"search_organizations", "get_organization", "search_configurations",
   "get_configuration", "search_passwords", "get_password", "search_documents",
   "search_flexible_assets", "itglue_health_check"}

\* what the handler returns (or throws)
Lit(str) == <<"lit", str>>
Json(value) == <<"json", value>>
\* variant: the error block is returned without the isError flag
ErrorResponse_unflagged(str) ==
  [thrown |-> FALSE, content |-> <<[type |-> "text", text |-> Lit(str)]>>, isError |-> Undefined]

ErrorResponse(str) ==
  [thrown |-> FALSE, content |-> <<[type |-> "text", text |-> Lit(str)]>>, isError |-> JsTrue]
ResultResponse(value) ==
  [thrown |-> FALSE, content |-> <<[type |-> "text", text |-> Json(value)]>>, isError |-> Undefined]
NoResponse == [thrown |-> FALSE, content |-> <<>>, isError |-> Undefined]

CredentialsError ==
  ErrorResponse("Error: No API credentials provided. Please configure your IT Glue API key via the ITGLUE_API_KEY or X_API_KEY environment variable.")

\* variant: only Error objects are rendered, anything else is thrown again
Caught_rethrowing(error) ==
  IF error.instanceofError THEN ErrorResponse("Error: " \o error.message)
  ELSE [thrown |-> TRUE, content |-> <<>>, isError |-> Undefined]

\* catch (error) { ... } of the handler
Caught(error) == ErrorResponse("Error: " \o error.message)

\* variant: every argument that is not undefined is copied into the filter
RECURSIVE assignFilter_defined(_, _, _)
assignFilter_defined(filter, pairs, args) ==
  IF pairs = <<>> THEN filter
  ELSE IF args[Head(pairs)[1]] # Undefined
       THEN assignFilter_defined(Put(filter, Head(pairs)[2], args[Head(pairs)[1]]),
                                 Tail(pairs), args)
       ELSE assignFilter_defined(filter, Tail(pairs), args)

\* the "if (args?.x) filter.k = args.x" lines: pairs is <<argument, filter key>>
RECURSIVE assignFilter(_, _, _)
assignFilter(filter, pairs, args) ==
  IF pairs = <<>> THEN filter
  ELSE IF Truthy(args[Head(pairs)[1]])
       THEN assignFilter(Put(filter, Head(pairs)[2], args[Head(pairs)[1]]), Tail(pairs), args)
       ELSE assignFilter(filter, Tail(pairs), args)

\* params.sort and params.page of the search tools
sortParam(args) == IF Truthy(args["sort"]) THEN <<ScalarParam("sort", args["sort"])>> ELSE <<>>
\* variant: the page defaults replace only undefined and null (??)
pageParam_nullish(args) ==
  <<PageParam([size |-> Nullish(args["page_size"], Num("50")),
               number |-> Nullish(args["page_number"], Num("1"))])>>

pageParam(args) ==
  <<PageParam([size |-> Or(args["page_size"], Num("50")),
               number |-> Or(args["page_number"], Num("1"))])>>
filterParam(filter) == IF Len(filter) > 0 THEN <<FilterParam(filter)>> ELSE <<>>

NoCall == FetchCall([apiKey |-> Undefined, baseUrl |-> Undefined], "", <<>>)
Return(response) == [op |-> "return", resp |-> response, call |-> NoCall, render |-> "none"]
Await(call, render) == [op |-> "await", resp |-> NoResponse, call |-> call, render |-> render]

search_organizations(client, args) ==
  LET filter == assignFilter(<<>>, << <<"name", K_name>>,
                                      <<"organization_type_id", K_organizationTypeId>>,
                                      <<"organization_status_id", K_organizationStatusId>>,
                                      <<"psa_id", K_psaId>> >>, args)
      params == filterParam(filter) \o sortParam(args) \o pageParam(args)
  IN Await(FetchCall(client, "/organizations", params), "request")

\* variant: no check of args.id
get_organization_unvalidated(client, args) ==
  Await(FetchCall(client, "/organizations/" \o String(args["id"]), <<>>), "get")

get_organization(client, args) ==
  IF ~Truthy(args["id"]) THEN Return(ErrorResponse("Error: Organization ID is required"))
  ELSE Await(FetchCall(client, "/organizations/" \o String(args["id"]), <<>>), "get")

search_configurations(client, args) ==
  LET filter == assignFilter(<<>>, << <<"organization_id", K_organizationId>>,
                                      <<"name", K_name>>,
                                      <<"configuration_type_id", K_configurationTypeId>>,
                                      <<"configuration_status_id", K_configurationStatusId>>,
                                      <<"serial_number", K_serialNumber>>,
                                      <<"rmm_id", K_rmmId>>,
                                      <<"psa_id", K_psaId>> >>, args)
      params == filterParam(filter) \o sortParam(args) \o pageParam(args)
  IN Await(FetchCall(client, "/configurations", params), "request")

get_configuration(client, args) ==
  IF ~Truthy(args["id"]) THEN Return(ErrorResponse("Error: Configuration ID is required"))
  ELSE Await(FetchCall(client, "/configurations/" \o String(args["id"]), <<>>), "get")

\* variant: the caller's show_password is forwarded when it is given
search_passwords_forwarding(client, args) ==
  LET filter == assignFilter(<<>>, << <<"organization_id", K_organizationId>>,
                                      <<"name", K_name>>,
                                      <<"password_category_id", K_passwordCategoryId>>,
                                      <<"url", K_url>>,
                                      <<"username", K_username>> >>, args)
      params == filterParam(filter) \o sortParam(args) \o pageParam(args)
                \o <<ScalarParam("show_password",
                                 IF args["show_password"] = Undefined
                                 THEN JsFalse ELSE args["show_password"])>>
  IN Await(FetchCall(client, "/passwords", params), "request")

search_passwords(client, args) ==
  LET filter == assignFilter(<<>>, << <<"organization_id", K_organizationId>>,
                                      <<"name", K_name>>,
                                      <<"password_category_id", K_passwordCategoryId>>,
                                      <<"url", K_url>>,
                                      <<"username", K_username>> >>, args)
      params == filterParam(filter) \o sortParam(args) \o pageParam(args)
                \o <<ScalarParam("show_password", JsFalse)>>
  IN Await(FetchCall(client, "/passwords", params), "request")

\* variant: show_password decided by truthiness (args.show_password || false)
get_password_truthy(client, args) ==
  IF ~Truthy(args["id"]) THEN Return(ErrorResponse("Error: Password ID is required"))
  ELSE LET showPassword == IF Truthy(args["show_password"]) THEN JsTrue ELSE JsFalse
       IN Await(FetchCall(client, "/passwords/" \o String(args["id"]),
                          <<ScalarParam("show_password", showPassword)>>), "get")

get_password(client, args) ==
  IF ~Truthy(args["id"]) THEN Return(ErrorResponse("Error: Password ID is required"))
  ELSE LET showPassword == IF args["show_password"] # JsFalse THEN JsTrue ELSE JsFalse
       IN Await(FetchCall(client, "/passwords/" \o String(args["id"]),
                          <<ScalarParam("show_password", showPassword)>>), "get")

search_documents(client, args) ==
  LET filter == assignFilter(<<>>, << <<"organization_id", K_organizationId>>,
                                      <<"name", K_name>> >>, args)
      params == filterParam(filter) \o sortParam(args) \o pageParam(args)
  IN Await(FetchCall(client, "/documents", params), "request")

search_flexible_assets(client, args) ==
  IF ~Truthy(args["flexible_asset_type_id"])
  THEN Return(ErrorResponse("Error: flexible_asset_type_id is required"))
  ELSE LET filter == assignFilter(<< <<K_flexibleAssetTypeId, args["flexible_asset_type_id"]>> >>,
                                  << <<"organization_id", K_organizationId>>,
                                     <<"name", K_name>> >>, args)
           params == <<FilterParam(filter)>> \o sortParam(args) \o pageParam(args)
       IN Await(FetchCall(client, "/flexible_assets", params), "request")

itglue_health_check(client, args) ==
  Await(FetchCall(client, "/organization_types",
                  <<PageParam([size |-> Num("1"), number |-> Undefined])>>), "health")

\* variant: the default branch throws
unknownTool_throwing(name) ==
  Return([thrown |-> TRUE, content |-> <<>>, isError |-> Undefined])

\* default branch of the switch
unknownTool(name) == Return(ErrorResponse("Unknown tool: " \o name))

\* switch (name) { ... }
dispatch(name, client, args) ==
  CASE name = "search_organizations" -> search_organizations(client, args)
    [] name = "get_organization" -> get_organization(client, args)
    [] name = "search_configurations" -> search_configurations(client, args)
    [] name = "get_configuration" -> get_configuration(client, args)
    [] name = "search_passwords" -> search_passwords(client, args)
    [] name = "get_password" -> get_password(client, args)
    [] name = "search_documents" -> search_documents(client, args)
    [] name = "search_flexible_assets" -> search_flexible_assets(client, args)
    [] name = "itglue_health_check" -> itglue_health_check(client, args)
    [] OTHER -> unknownTool(name)

\* variant: no early return on missing credentials; createClient throws
handleCallTool_unchecked(name, args, e) ==
  LET credentials == getCredentialsFromEnv(e)
  IN IF createClientThrows(credentials)
     THEN [step |-> Return(Caught(ErrorObj("No IT Glue API key provided"))), clients |-> 0]
     ELSE [step |-> dispatch(name, createClient(credentials), args), clients |-> 1]

\* the handler up to its first await or its return: [step, clients], clients
\* being the number of ITGlueClient objects it constructed
handleCallTool(name, args, e) ==
  LET credentials == getCredentialsFromEnv(e)
  IN IF ~Truthy(credentials.apiKey)
     THEN [step |-> Return(CredentialsError), clients |-> 0]
     ELSE IF createClientThrows(credentials)
     THEN [step |-> Return(Caught(ErrorObj("No IT Glue API key provided"))), clients |-> 0]
     ELSE [step |-> dispatch(name, createClient(credentials), args), clients |-> 1]

\* the handler after the awaited client call has settled with result res
resume(render, region, res) ==
  IF res.threw THEN Caught(res.error)
  ELSE CASE render = "request" ->
              ResultResponse([data |-> res.data, meta |-> res.meta])
         [] render = "get" ->
              ResultResponse(first(res.data))
         [] OTHER ->
              ResultResponse([status |-> "ok",
                              message |-> "IT Glue API is reachable",
                              region |-> region,
                              organizationTypesFound |-> res.meta.totalCount])

----------------------------------------------------------------------------
(* HTTP request listener of startHttpTransport. *)

NoHeaders == [xItglueApiKey |-> Undefined, xApiKey |-> Undefined,
              xItglueBaseUrl |-> Undefined, xItglueRegion |-> Undefined]
NoRequest == [path |-> "", method |-> "", headers |-> NoHeaders]
NoAnswer == [status |-> 0, body |-> "none"]

\* variant: the key is written to X_API_KEY
injectHeaders_secondary(e, headers) ==
  [e EXCEPT !.X_API_KEY = Or(headers.xItglueApiKey, headers.xApiKey)]

\* the process.env writes of the gateway branch
injectHeaders(e, headers) ==
  LET apiKey == Or(headers.xItglueApiKey, headers.xApiKey)
      e1 == [e EXCEPT !.ITGLUE_API_KEY = apiKey]
      e2 == IF Truthy(headers.xItglueBaseUrl)
            THEN [e1 EXCEPT !.ITGLUE_BASE_URL = headers.xItglueBaseUrl] ELSE e1
  IN IF Truthy(headers.xItglueRegion)
     THEN [e2 EXCEPT !.ITGLUE_REGION = headers.xItglueRegion] ELSE e2

\* variant: the base URL and region headers are written before the key check
listener_eager(gateway, e, path, method, headers) ==
  IF path = "/mcp" /\ method = "POST" /\ gateway
     /\ ~Truthy(Or(headers.xItglueApiKey, headers.xApiKey))
  THEN [answer |-> [status |-> 401,
                    body |-> [error |-> "Missing credentials",
                              message |-> "Gateway mode requires X-ITGlue-API-Key header",
                              required |-> <<"X-ITGlue-API-Key">>]],
        connect |-> FALSE,
        env |-> [injectHeaders(e, headers) EXCEPT !.ITGLUE_API_KEY = e.ITGLUE_API_KEY]]
  ELSE [answer |-> NoAnswer, connect |-> TRUE, env |-> e]

\* variant: the gateway credential check precedes the routing
listener_checkFirst(gateway, e, path, method, headers) ==
  IF gateway /\ ~Truthy(Or(headers.xItglueApiKey, headers.xApiKey))
  THEN [answer |-> [status |-> 401,
                    body |-> [error |-> "Missing credentials",
                              message |-> "Gateway mode requires X-ITGlue-API-Key header",
                              required |-> <<"X-ITGlue-API-Key">>]],
        connect |-> FALSE, env |-> e]
  ELSE IF path = "/health"
  THEN [answer |-> [status |-> 200,
                    body |-> [status |-> "ok", transport |-> "http",
                              authMode |-> IF gateway THEN "gateway" ELSE "env",
                              timestamp |-> "now"]],
        connect |-> FALSE, env |-> e]
  ELSE IF path = "/mcp"
  THEN IF method # "POST"
       THEN [answer |-> [status |-> 405,
                         body |-> [jsonrpc |-> "2.0",
                                   error |-> [code |-> -32000, message |-> "Method not allowed"],
                                   id |-> Null]],
             connect |-> FALSE, env |-> e]
       ELSE [answer |-> NoAnswer, connect |-> TRUE,
             env |-> IF gateway THEN injectHeaders(e, headers) ELSE e]
  ELSE [answer |-> [status |-> 404,
                    body |-> [error |-> "Not found", endpoints |-> <<"/mcp", "/health">>]],
        connect |-> FALSE, env |-> e]

\* the synchronous part of the listener: the answer it writes (status 0: none
\* yet), whether it creates and connects a server and transport, and process.env
\* afterwards
listener(gateway, e, path, method, headers) ==
  IF path = "/health"
  THEN [answer |-> [status |-> 200,
                    body |-> [status |-> "ok", transport |-> "http",
                              authMode |-> IF gateway THEN "gateway" ELSE "env",
                              timestamp |-> "now"]],
        connect |-> FALSE, env |-> e]
  ELSE IF path = "/mcp"
  THEN IF method # "POST"
       THEN [answer |-> [status |-> 405,
                         body |-> [jsonrpc |-> "2.0",
                                   error |-> [code |-> -32000, message |-> "Method not allowed"],
                                   id |-> Null]],
             connect |-> FALSE, env |-> e]
       ELSE IF gateway /\ ~Truthy(Or(headers.xItglueApiKey, headers.xApiKey))
       THEN [answer |-> [status |-> 401,
                         body |-> [error |-> "Missing credentials",
                                   message |-> "Gateway mode requires X-ITGlue-API-Key header",
                                   required |-> <<"X-ITGlue-API-Key">>]],
             connect |-> FALSE, env |-> e]
       ELSE [answer |-> NoAnswer, connect |-> TRUE,
             env |-> IF gateway THEN injectHeaders(e, headers) ELSE e]
  ELSE [answer |-> [status |-> 404,
                    body |-> [error |-> "Not found", endpoints |-> <<"/mcp", "/health">>]],
        connect |-> FALSE, env |-> e]

----------------------------------------------------------------------------
(* State. *)

VARIABLES
  transport,      \* MCP_TRANSPORT: "stdio" or "http"
  isGatewayMode,  \* AUTH_MODE === "gateway"
  env,            \* process.env: the ambient configuration
  pc,             \* per slot: "idle", "connected", "fetching", "responded", "done"
  req,            \* per slot: the inbound HTTP request
  envBefore,      \* per slot: process.env when the request arrived
  http,           \* per slot: the HTTP answer written so far
  servers,        \* per slot: servers/transports created for the request, and whether open
  inv,            \* per slot: the tool invocation [name, args]
  clients,        \* per slot: ITGlueClient objects constructed by the invocation
  calls,          \* per slot: fetch calls issued by the invocation
  pending,        \* per slot: what the awaiting handler does with the result
  outcome,        \* per slot: how the awaited fetch settled
  resp,           \* per slot: what the handler returned
  tools,          \* per slot: the catalog the list-tools handler returned
  kind,           \* what a direct call of a utility function works on: "string",
                  \* "object", "resource"; "none" when the server is running
  subject,        \* the value the utility functions were given
  cur,            \* the value returned by the last of them
  applied         \* the names of the functions applied, in order

vars == <<transport, isGatewayMode, env, pc, req, envBefore, http, servers, inv,
          clients, calls, pending, outcome, resp, tools, kind, subject, cur, applied>>

\* the variables of the direct calls of the utility functions
pure == <<kind, subject, cur, applied>>

NoArgs == [a \in ArgNames |-> Undefined]
NoInvocation == [name |-> "", args |-> NoArgs]
NoPending == [render |-> "none", region |-> Undefined]
NoOutcome == [settle |-> "none", reason |-> NoError, status |-> 0, text |-> "",
              parses |-> FALSE, json |-> NoEnvelope]
NoEnv == [ITGLUE_API_KEY |-> Undefined, X_API_KEY |-> Undefined,
          ITGLUE_REGION |-> Undefined, ITGLUE_BASE_URL |-> Undefined]

----------------------------------------------------------------------------
(* Inputs. *)

\* argument values: null, booleans, numbers and strings, falsy and truthy
Values == {Null, JsFalse, JsTrue, Num("0"), Num("7"), Str(""), Str("acme")}

\* the properties the catalog declares for each tool
Properties(name) ==
  CASE name = "search_organizations" ->
         {"name", "organization_type_id", "organization_status_id", "psa_id",
          "page_size", "page_number", "sort"}
    [] name = "get_organization" -> {"id"}
    [] name = "search_configurations" ->
         {"organization_id", "name", "configuration_type_id", "configuration_status_id",
          "serial_number", "rmm_id", "psa_id", "page_size", "page_number", "sort"}
    [] name = "get_configuration" -> {"id"}
    [] name = "search_passwords" ->
         {"organization_id", "name", "password_category_id", "url", "username",
          "page_size", "page_number", "sort"}
    [] name = "get_password" -> {"id", "show_password"}
    [] name = "search_documents" ->
         {"organization_id", "name", "page_size", "page_number", "sort"}
    [] name = "search_flexible_assets" ->
         {"flexible_asset_type_id", "organization_id", "name",
          "page_size", "page_number", "sort"}
    [] OTHER -> {}

\* the required array the catalog declares for each tool
Required(name) ==
  CASE name = "search_organizations" -> <<>>
    [] name = "get_organization" -> <<"id">>
    [] name = "search_configurations" -> <<>>
    [] name = "get_configuration" -> <<"id">>
    [] name = "search_passwords" -> <<>>
    [] name = "get_password" -> <<"id">>
    [] name = "search_documents" -> <<>>
    [] name = "search_flexible_assets" -> <<"flexible_asset_type_id">>
    [] name = "itglue_health_check" -> <<>>

\* one entry of the catalog: the tool's name and the properties and required
\* lists of its inputSchema
Tool(name) == [name |-> name, properties |-> Properties(name), required |-> Required(name)]

\* what the list-tools handler returns: the nine tools in catalog order
listTools ==
  <<Tool("search_organizations"), Tool("get_organization"),
    Tool("search_configurations"), Tool("get_configuration"),
    Tool("search_passwords"), Tool("get_password"),
    Tool("search_documents"), Tool("search_flexible_assets"),
    Tool("itglue_health_check")>>

\* a name outside the catalog
UnknownTool == "delete_organization"

\* the arguments a caller may try on a tool: its declared properties, and
\* show_password also on search_passwords, id also on an unknown tool
Supplied(name) ==
  Properties(name) \cup
  (IF name = "search_passwords" THEN {"show_password"} ELSE {}) \cup
  (IF name = UnknownTool THEN {"id"} ELSE {})

\* the argument mappings that supply at most MaxArgs of the names: one for
\* each S in Supplying(names) and f in [S -> Values]
Supplying(names) == {S \in SUBSET names : Cardinality(S) <= MaxArgs}
Arguments(S, f) == [a \in ArgNames |-> IF a \in S THEN f[a] ELSE Undefined]

\* ambient configurations of a stdio deployment
StdioEnvs ==
  [ITGLUE_API_KEY : {Undefined, Str("ITG.env")},
   X_API_KEY : {Undefined},
   ITGLUE_REGION : {Undefined},
   ITGLUE_BASE_URL : {Undefined}]

Resource(id, attributes) ==
  [id |-> Str(id), type |-> Str("organizations"), hasAttributes |-> TRUE,
   attributes |-> attributes]
Attrs1 == << <<<<"n","a","m","e">>, Str("Acme")>>,
             <<<<"s","h","o","r","t","-","n","a","m","e">>, Str("ac")>> >>
Envelope(shape, items, meta) ==
  [errors |-> [present |-> FALSE, list |-> <<>>],
   data |-> [shape |-> shape, items |-> items], meta |-> meta]
Meta2 == [present |-> TRUE, currentPage |-> Num("2"), nextPage |-> Num("3"),
          prevPage |-> Num("1"), totalPages |-> Num("3"), totalCount |-> Num("5")]

\* what the upstream may answer to one fetch
Upstream ==
  {Rejected(ErrorObj("fetch failed")),
   Rejected(NonError("socket hang up")),
   Resolved(500, "Internal Server Error", FALSE, NoEnvelope),
   Resolved(200, "<html>", FALSE, NoEnvelope),
   Resolved(200, "{}", TRUE,
            [NoEnvelope EXCEPT !.errors =
               [present |-> TRUE,
                list |-> <<[detail |-> Str("Record not found"), title |-> Str("Not Found")]>>]]),
   Resolved(200, "{}", TRUE, Envelope("array", <<>>, NoMeta)),
   Resolved(200, "{}", TRUE,
            Envelope("array", <<Resource("1", Attrs1), Resource("2", <<>>)>>, Meta2)),
   Resolved(200, "{}", TRUE, Envelope("object", <<Resource("1", Attrs1)>>, NoMeta))}

----------------------------------------------------------------------------
(* Actions. *)

\* the call-tool handler, from its start to its first await or its return
CallTool(r, name, args) ==
  /\ pc[r] = "connected"
  /\ \E h \in {handleCallTool(name, args, env)} :
        /\ inv' = [inv EXCEPT ![r] = [name |-> name, args |-> args]]
        /\ clients' = [clients EXCEPT ![r] = h.clients]
        /\ outcome' = [outcome EXCEPT ![r] = NoOutcome]
        /\ IF h.step.op = "await"
           THEN /\ calls' = [calls EXCEPT ![r] = <<h.step.call>>]
                /\ pending' = [pending EXCEPT ![r] =
                                 [render |-> h.step.render,
                                  region |-> getCredentialsFromEnv(env).region]]
                /\ resp' = [resp EXCEPT ![r] = NoResponse]
                /\ pc' = [pc EXCEPT ![r] = "fetching"]
                /\ http' = http
           ELSE /\ calls' = [calls EXCEPT ![r] = <<>>]
                /\ pending' = [pending EXCEPT ![r] = NoPending]
                /\ resp' = [resp EXCEPT ![r] = h.step.resp]
                /\ pc' = [pc EXCEPT ![r] = "responded"]
                /\ http' = IF transport = "http"
                           THEN [http EXCEPT ![r] = [status |-> 200, body |-> "jsonrpc"]]
                           ELSE http
  /\ UNCHANGED <<pure, transport, isGatewayMode, env, req, envBefore, servers, tools>>

\* the list-tools handler: it returns the catalog without reading credentials
ListTools(r) ==
  /\ pc[r] = "connected"
  /\ tools' = [tools EXCEPT ![r] = listTools]
  /\ pc' = [pc EXCEPT ![r] = "responded"]
  /\ http' = IF transport = "http"
             THEN [http EXCEPT ![r] = [status |-> 200, body |-> "jsonrpc"]]
             ELSE http
  /\ UNCHANGED <<pure, transport, isGatewayMode, env, req, envBefore, servers, inv, clients,
                 calls, pending, outcome, resp>>

\* variant: a failed client call is issued a second time before the failure
\* is reported
FetchSettle_retrying(r, o) ==
  /\ pc[r] = "fetching"
  /\ outcome' = [outcome EXCEPT ![r] = o]
  /\ IF request(o).threw /\ Len(calls[r]) < 2
     THEN /\ calls' = [calls EXCEPT ![r] = Append(calls[r], calls[r][1])]
          /\ UNCHANGED <<pc, resp, pending, http>>
     ELSE /\ resp' = [resp EXCEPT ![r] =
                        resume(pending[r].render, pending[r].region, request(o))]
          /\ pending' = [pending EXCEPT ![r] = NoPending]
          /\ pc' = [pc EXCEPT ![r] = "responded"]
          /\ UNCHANGED <<calls, http>>
  /\ UNCHANGED <<pure, transport, isGatewayMode, env, req, envBefore, servers, inv, clients, tools>>

\* variant: the handler is not resumed when the fetch rejects
FetchSettle_hanging(r, o) ==
  /\ pc[r] = "fetching"
  /\ outcome[r].settle = "none"
  /\ outcome' = [outcome EXCEPT ![r] = o]
  /\ IF o.settle = "reject"
     THEN UNCHANGED <<resp, pending, pc>>
     ELSE /\ resp' = [resp EXCEPT ![r] =
                        resume(pending[r].render, pending[r].region, request(o))]
          /\ pending' = [pending EXCEPT ![r] = NoPending]
          /\ pc' = [pc EXCEPT ![r] = "responded"]
  /\ UNCHANGED <<pure, transport, isGatewayMode, env, req, envBefore, servers, inv, clients,
                 calls, tools, http>>

\* the awaited fetch settles and the handler runs to its return
FetchSettle(r, o) ==
  /\ pc[r] = "fetching"
  /\ outcome' = [outcome EXCEPT ![r] = o]
  /\ resp' = [resp EXCEPT ![r] = resume(pending[r].render, pending[r].region, request(o))]
  /\ pending' = [pending EXCEPT ![r] = NoPending]
  /\ IF transport = "http" /\ ~servers[r].open
     THEN pc' = [pc EXCEPT ![r] = "done"] /\ http' = http
     ELSE /\ pc' = [pc EXCEPT ![r] = "responded"]
          /\ http' = IF transport = "http"
                     THEN [http EXCEPT ![r] = [status |-> 200, body |-> "jsonrpc"]]
                     ELSE http
  /\ UNCHANGED <<pure, transport, isGatewayMode, env, req, envBefore, servers, inv, clients,
                 calls, tools>>

\* the stdio transport has written the response; the session waits for the
\* next request
NextRequest(r) ==
  /\ transport = "stdio"
  /\ pc[r] = "responded"
  /\ pc' = [pc EXCEPT ![r] = "connected"]
  /\ inv' = [inv EXCEPT ![r] = NoInvocation]
  /\ clients' = [clients EXCEPT ![r] = 0]
  /\ calls' = [calls EXCEPT ![r] = <<>>]
  /\ outcome' = [outcome EXCEPT ![r] = NoOutcome]
  /\ resp' = [resp EXCEPT ![r] = NoResponse]
  /\ tools' = [tools EXCEPT ![r] = <<>>]
  /\ UNCHANGED <<pure, transport, isGatewayMode, env, req, envBefore, http, servers, pending>>

\* variant: a request that arrives while another request's server is open is
\* connected to that server instead of a new one
HttpRequest_reusing(r, path, method, headers) ==
  /\ transport = "http"
  /\ pc[r] \in {"idle", "done"}
  /\ \E l \in {listener(isGatewayMode, env, path, method, headers)} :
        /\ env' = l.env
        /\ http' = [http EXCEPT ![r] = l.answer]
        /\ servers' = [servers EXCEPT ![r] =
                         [created |-> IF l.connect /\ \A q \in Slots \ {r} : ~servers[q].open
                                      THEN 1 ELSE 0,
                          open |-> l.connect]]
        /\ pc' = [pc EXCEPT ![r] = IF l.connect THEN "connected" ELSE "done"]
  /\ req' = [req EXCEPT ![r] = [path |-> path, method |-> method, headers |-> headers]]
  /\ envBefore' = [envBefore EXCEPT ![r] = env]
  /\ inv' = [inv EXCEPT ![r] = NoInvocation]
  /\ clients' = [clients EXCEPT ![r] = 0]
  /\ calls' = [calls EXCEPT ![r] = <<>>]
  /\ pending' = [pending EXCEPT ![r] = NoPending]
  /\ outcome' = [outcome EXCEPT ![r] = NoOutcome]
  /\ resp' = [resp EXCEPT ![r] = NoResponse]
  /\ tools' = [tools EXCEPT ![r] = <<>>]
  /\ UNCHANGED <<pure, transport, isGatewayMode>>

\* an HTTP request arrives and the listener runs up to server.connect(...)
HttpRequest(r, path, method, headers) ==
  /\ transport = "http"
  /\ pc[r] \in {"idle", "done"}
  /\ \E l \in {listener(isGatewayMode, env, path, method, headers)} :
        /\ env' = l.env
        /\ http' = [http EXCEPT ![r] = l.answer]
        /\ servers' = [servers EXCEPT ![r] =
                         [created |-> IF l.connect THEN 1 ELSE 0, open |-> l.connect]]
        /\ pc' = [pc EXCEPT ![r] = IF l.connect THEN "connected" ELSE "done"]
  /\ req' = [req EXCEPT ![r] = [path |-> path, method |-> method, headers |-> headers]]
  /\ envBefore' = [envBefore EXCEPT ![r] = env]
  /\ inv' = [inv EXCEPT ![r] = NoInvocation]
  /\ clients' = [clients EXCEPT ![r] = 0]
  /\ calls' = [calls EXCEPT ![r] = <<>>]
  /\ pending' = [pending EXCEPT ![r] = NoPending]
  /\ outcome' = [outcome EXCEPT ![r] = NoOutcome]
  /\ resp' = [resp EXCEPT ![r] = NoResponse]
  /\ tools' = [tools EXCEPT ![r] = <<>>]
  /\ UNCHANGED <<pure, transport, isGatewayMode>>

\* res.on("close"): transport.close(); server.close()
Close(r) ==
  /\ transport = "http"
  /\ servers[r].open
  /\ servers' = [servers EXCEPT ![r].open = FALSE]
  /\ pc' = [pc EXCEPT ![r] = IF pc[r] = "fetching" THEN "fetching" ELSE "done"]
  /\ UNCHANGED <<pure, transport, isGatewayMode, env, req, envBefore, http, inv, clients,
                 calls, pending, outcome, resp, tools>>

----------------------------------------------------------------------------
(* Specification of a stdio deployment: one session, tool calls one after  *)
(* the other.                                                              *)

Init ==
  /\ transport = "stdio"
  /\ isGatewayMode = FALSE
  /\ env \in StdioEnvs
  /\ pc = [r \in Slots |-> IF r = 1 THEN "connected" ELSE "idle"]
  /\ req = [r \in Slots |-> NoRequest]
  /\ envBefore = [r \in Slots |-> NoEnv]
  /\ http = [r \in Slots |-> NoAnswer]
  /\ servers = [r \in Slots |-> [created |-> IF r = 1 THEN 1 ELSE 0, open |-> r = 1]]
  /\ inv = [r \in Slots |-> NoInvocation]
  /\ clients = [r \in Slots |-> 0]
  /\ calls = [r \in Slots |-> <<>>]
  /\ pending = [r \in Slots |-> NoPending]
  /\ outcome = [r \in Slots |-> NoOutcome]
  /\ resp = [r \in Slots |-> NoResponse]
  /\ tools = [r \in Slots |-> <<>>]
  /\ kind = "none" /\ subject = <<>> /\ cur = <<>> /\ applied = <<>>

Next ==
  \/ /\ pc[1] = "connected"
     /\ \E name \in ToolNames \cup {UnknownTool} :
          \E S \in Supplying(Supplied(name)) :
            \E f \in [S -> Values] : CallTool(1, name, Arguments(S, f))
  \/ \E o \in Upstream : FetchSettle(1, o)
  \/ NextRequest(1)

Spec == Init /\ [][Next]_vars

----------------------------------------------------------------------------
(* Specification of an HTTP deployment that serves one request at a time,  *)
(* in env or gateway mode.                                                 *)

HttpEnvs ==
  [ITGLUE_API_KEY : {Undefined, Str("ITG.env")},
   X_API_KEY : {Undefined, Str("ITG.alt")},
   ITGLUE_REGION : {Undefined},
   ITGLUE_BASE_URL : {Undefined}]

Paths == {"/health", "/mcp", "/"}
Methods == {"GET", "POST"}
Headers ==
  [xItglueApiKey : {Undefined, Str("ITG.one")},
   xApiKey : {Undefined, Str("ITG.two")},
   xItglueBaseUrl : {Undefined, Str("https://itglue.example")},
   xItglueRegion : {Undefined, Str("eu"), Str("zz")}]

\* the tool calls tried over HTTP
HttpCalls ==
  {[name |-> "itglue_health_check", args |-> NoArgs],
   [name |-> "get_organization", args |-> NoArgs],
   [name |-> "get_organization", args |-> [NoArgs EXCEPT !["id"] = Num("7")]]}

HttpUpstream ==
  {Rejected(ErrorObj("fetch failed")),
   Resolved(200, "{}", TRUE, Envelope("array", <<Resource("1", Attrs1)>>, NoMeta))}

InitHttp ==
  /\ transport = "http"
  /\ isGatewayMode \in BOOLEAN
  /\ env \in HttpEnvs
  /\ pc = [r \in Slots |-> "idle"]
  /\ req = [r \in Slots |-> NoRequest]
  /\ envBefore = [r \in Slots |-> NoEnv]
  /\ http = [r \in Slots |-> NoAnswer]
  /\ servers = [r \in Slots |-> [created |-> 0, open |-> FALSE]]
  /\ inv = [r \in Slots |-> NoInvocation]
  /\ clients = [r \in Slots |-> 0]
  /\ calls = [r \in Slots |-> <<>>]
  /\ pending = [r \in Slots |-> NoPending]
  /\ outcome = [r \in Slots |-> NoOutcome]
  /\ resp = [r \in Slots |-> NoResponse]
  /\ tools = [r \in Slots |-> <<>>]
  /\ kind = "none" /\ subject = <<>> /\ cur = <<>> /\ applied = <<>>

NextHttp ==
  \/ /\ pc[1] \in {"idle", "done"}
     /\ \E path \in Paths, method \in Methods, headers \in Headers :
          HttpRequest(1, path, method, headers)
  \/ \E c \in HttpCalls : CallTool(1, c.name, c.args)
  \/ \E o \in HttpUpstream : FetchSettle(1, o)
  \/ Close(1)

SpecHttp == InitHttp /\ [][NextHttp]_vars

----------------------------------------------------------------------------
(* Specification of an HTTP deployment in gateway mode with up to MaxReqs  *)
(* requests in flight.                                                     *)

KeyHeaders ==
  {[NoHeaders EXCEPT !.xItglueApiKey = k] : k \in {Str("ITG.one"), Str("ITG.two")}}

InitConc ==
  /\ transport = "http"
  /\ isGatewayMode = TRUE
  /\ env = NoEnv
  /\ pc = [r \in Slots |-> "idle"]
  /\ req = [r \in Slots |-> NoRequest]
  /\ envBefore = [r \in Slots |-> NoEnv]
  /\ http = [r \in Slots |-> NoAnswer]
  /\ servers = [r \in Slots |-> [created |-> 0, open |-> FALSE]]
  /\ inv = [r \in Slots |-> NoInvocation]
  /\ clients = [r \in Slots |-> 0]
  /\ calls = [r \in Slots |-> <<>>]
  /\ pending = [r \in Slots |-> NoPending]
  /\ outcome = [r \in Slots |-> NoOutcome]
  /\ resp = [r \in Slots |-> NoResponse]
  /\ tools = [r \in Slots |-> <<>>]
  /\ kind = "none" /\ subject = <<>> /\ cur = <<>> /\ applied = <<>>

NextConc ==
  \E r \in Slots :
    \/ \E headers \in KeyHeaders : HttpRequest(r, "/mcp", "POST", headers)
    \/ CallTool(r, "itglue_health_check", NoArgs)
    \/ FetchSettle(r, Resolved(200, "{}", TRUE, Envelope("array", <<>>, NoMeta)))
    \/ Close(r)

SpecConc == InitConc /\ [][NextConc]_vars

----------------------------------------------------------------------------
(* Specification of a stdio session with an API key, over every region and *)
(* base URL setting and every kind of upstream answer.                     *)

ClientEnvs ==
  [ITGLUE_API_KEY : {Str("ITG.env")},
   X_API_KEY : {Undefined},
   ITGLUE_REGION : {Undefined, Str("us"), Str("eu"), Str("au")},
   ITGLUE_BASE_URL : {Undefined, Str(""), Str("https://itglue.example")}]

\* a search tool, a get tool with and without its id, and the health check
ClientCalls ==
  {[name |-> "search_organizations", args |-> NoArgs],
   [name |-> "get_organization", args |-> [NoArgs EXCEPT !["id"] = Num("7")]],
   [name |-> "get_organization", args |-> NoArgs],
   [name |-> "itglue_health_check", args |-> NoArgs]}

\* the envelope with an errors array
Errors(list, envelope) == [envelope EXCEPT !.errors = [present |-> TRUE, list |-> list]]

Items2 == <<Resource("1", Attrs1), Resource("2", <<>>)>>
\* meta objects: every field 0; only total-count; the last page (next-page null)
MetaZero == [present |-> TRUE, currentPage |-> Num("0"), nextPage |-> Num("0"),
             prevPage |-> Num("0"), totalPages |-> Num("0"), totalCount |-> Num("0")]
MetaCount == [NoMeta EXCEPT !.present = TRUE, !.totalCount = Num("5")]
MetaLast == [present |-> TRUE, currentPage |-> Num("3"), nextPage |-> Null,
             prevPage |-> Num("2"), totalPages |-> Num("3"), totalCount |-> Num("5")]

\* upstream answers: rejections, statuses around the 2xx range, bodies with
\* and without errors, data as a list and as an object, meta present and not
ClientUpstream ==
  {Rejected(ErrorObj("fetch failed")),
   Resolved(500, "Internal Server Error", FALSE, NoEnvelope),
   Resolved(404, "{\"errors\":[{\"title\":\"Not Found\"}]}", TRUE,
            Errors(<<[detail |-> Undefined, title |-> Str("Not Found")]>>, NoEnvelope)),
   Resolved(300, "{\"data\":[]}", TRUE, Envelope("array", <<>>, NoMeta)),
   Resolved(299, "{}", TRUE, Envelope("array", Items2, NoMeta)),
   Resolved(200, "<html>", FALSE, NoEnvelope),
   Resolved(200, "{}", TRUE, NoEnvelope),
   Resolved(200, "{}", TRUE,
            Errors(<<[detail |-> Str("Record not found"), title |-> Str("Not Found")]>>,
                   NoEnvelope)),
   Resolved(200, "{}", TRUE,
            Errors(<<[detail |-> Undefined, title |-> Str("Not Found")]>>, NoEnvelope)),
   Resolved(200, "{}", TRUE,
            Errors(<<[detail |-> Str("Record not found"), title |-> Undefined],
                     [detail |-> Undefined, title |-> Str("Forbidden")]>>,
                   Envelope("array", Items2, NoMeta))),
   Resolved(200, "{}", TRUE, Errors(<<>>, Envelope("array", Items2, Meta2))),
   Resolved(200, "{}", TRUE, Envelope("array", <<>>, NoMeta)),
   Resolved(200, "{}", TRUE, Envelope("object", <<Resource("1", Attrs1)>>, NoMeta)),
   Resolved(200, "{}", TRUE, Envelope("object", <<Resource("2", <<>>)>>, MetaLast)),
   Resolved(200, "{}", TRUE, Envelope("array", Items2, MetaZero)),
   Resolved(200, "{}", TRUE, Envelope("array", Items2, MetaCount)),
   Resolved(200, "{}", TRUE, Envelope("array", Items2, MetaLast))}

InitClient ==
  /\ transport = "stdio"
  /\ isGatewayMode = FALSE
  /\ env \in ClientEnvs
  /\ pc = [r \in Slots |-> IF r = 1 THEN "connected" ELSE "idle"]
  /\ req = [r \in Slots |-> NoRequest]
  /\ envBefore = [r \in Slots |-> NoEnv]
  /\ http = [r \in Slots |-> NoAnswer]
  /\ servers = [r \in Slots |-> [created |-> IF r = 1 THEN 1 ELSE 0, open |-> r = 1]]
  /\ inv = [r \in Slots |-> NoInvocation]
  /\ clients = [r \in Slots |-> 0]
  /\ calls = [r \in Slots |-> <<>>]
  /\ pending = [r \in Slots |-> NoPending]
  /\ outcome = [r \in Slots |-> NoOutcome]
  /\ resp = [r \in Slots |-> NoResponse]
  /\ tools = [r \in Slots |-> <<>>]
  /\ kind = "none" /\ subject = <<>> /\ cur = <<>> /\ applied = <<>>

NextClient ==
  \/ ListTools(1)
  \/ \E c \in ClientCalls : CallTool(1, c.name, c.args)
  \/ \E o \in ClientUpstream : FetchSettle(1, o)
  \/ NextRequest(1)

SpecClient == InitClient /\ [][NextClient]_vars

\* the same session when every outbound call completes: the fetch that a
\* handler awaits resolves or rejects at some time
Completes == \E o \in ClientUpstream : FetchSettle(1, o)

SpecClientLive == SpecClient /\ WF_vars(Completes)

----------------------------------------------------------------------------
(* Specification of direct calls of the utility functions: a value is      *)
(* chosen and the functions are applied to it, the result of one being the *)
(* argument of the next. No server is running.                             *)

\* the characters of the strings tried: lowercase and uppercase letters, the
\* hyphen and a digit
Alphabet == {"a", "b", "A", "-", "1"}
Strings == UNION {[1..n -> Alphabet] : n \in 0..MaxLen}

NoServer ==
  /\ transport = "none"
  /\ isGatewayMode = FALSE
  /\ env = NoEnv
  /\ pc = [r \in Slots |-> "idle"]
  /\ req = [r \in Slots |-> NoRequest]
  /\ envBefore = [r \in Slots |-> NoEnv]
  /\ http = [r \in Slots |-> NoAnswer]
  /\ servers = [r \in Slots |-> [created |-> 0, open |-> FALSE]]
  /\ inv = [r \in Slots |-> NoInvocation]
  /\ clients = [r \in Slots |-> 0]
  /\ calls = [r \in Slots |-> <<>>]
  /\ pending = [r \in Slots |-> NoPending]
  /\ outcome = [r \in Slots |-> NoOutcome]
  /\ resp = [r \in Slots |-> NoResponse]
  /\ tools = [r \in Slots |-> <<>>]

\* the variables of the server, which the utility functions do not touch
served == <<transport, isGatewayMode, env, pc, req, envBefore, http, servers, inv,
            clients, calls, pending, outcome, resp, tools>>

\* cur = kebabToCamel(cur)
KebabToCamel ==
  /\ kind = "string"
  /\ Len(applied) < 2
  /\ cur' = kebabToCamel(cur)
  /\ applied' = Append(applied, "kebabToCamel")
  /\ UNCHANGED <<kind, subject, served>>

\* cur = camelToKebab(cur)
CamelToKebab ==
  /\ kind = "string"
  /\ Len(applied) < 2
  /\ cur' = camelToKebab(cur)
  /\ applied' = Append(applied, "camelToKebab")
  /\ UNCHANGED <<kind, subject, served>>

\* raw keys
Kab == <<"a", "-", "b">>
Kcd == <<"c", "-", "d">>
Kn == <<"n">>

Obj(entries) == <<"object", entries>>
Arr(elements) == <<"array", elements>>

\* objects given to convertKeysToCamel: empty, flat, nested two levels deep
\* next to null and a number, and holding arrays of objects and scalars
Objects ==
  {<<>>,
   << <<Kab, Str("x")>>, <<Kn, Num("7")>> >>,
   << <<Kab, Obj(<< <<Kcd, Obj(<< <<Kab, Str("x")>> >>)>>, <<Kn, Null>> >>)>>,
      <<Kcd, Arr(<<Obj(<< <<Kab, Str("y")>> >>), Str("z")>>)>>,
      <<Kn, Num("7")>> >>,
   << <<Kn, Arr(<<>>)>>, <<Kcd, Obj(<<>>)>> >>}

\* cur = convertKeysToCamel(cur); the argument is only read
ConvertKeysToCamel ==
  /\ kind = "object"
  /\ applied = <<>>
  /\ cur' = convertKeysToCamel(cur)
  /\ applied' = <<"convertKeysToCamel">>
  /\ UNCHANGED <<kind, subject, served>>

\* raw resources given to deserializeResource: with hyphenated attributes,
\* with no attributes, without the attributes member, and with attributes
\* that are themselves named id or type
Kid == <<"i", "d">>
Ktype == <<"t", "y", "p", "e">>
Resources ==
  {Resource("1", Attrs1),
   Resource("2", <<>>),
   [Resource("3", <<>>) EXCEPT !.hasAttributes = FALSE],
   Resource("4", << <<Kid, Str("99")>>, <<Kab, Str("x")>> >>),
   Resource("5", << <<Kn, Num("7")>>, <<Ktype, Str("widgets")>> >>),
   Resource("6", << <<Kid, Str("6")>>, <<Ktype, Str("organizations")>> >>)}

\* cur = deserializeResource(cur)
DeserializeResource ==
  /\ kind = "resource"
  /\ applied = <<>>
  /\ cur' = deserializeResource(cur)
  /\ applied' = <<"deserializeResource">>
  /\ UNCHANGED <<kind, subject, served>>

InitUtil ==
  /\ NoServer
  /\ applied = <<>>
  /\ \/ kind = "string" /\ subject \in Strings
     \/ kind = "object" /\ subject \in Objects
     \/ kind = "resource" /\ subject \in Resources
  /\ cur = subject

NextUtil ==
  \/ KebabToCamel
  \/ CamelToKebab
  \/ ConvertKeysToCamel
  \/ DeserializeResource

SpecUtil == InitUtil /\ [][NextUtil]_vars

----------------------------------------------------------------------------
(* Properties. *)

\* the fetch call carries the query parameter name=value
HasParam(call, name, value) ==
  \E i \in 1..Len(call.url.query) :
    call.url.query[i].name = name /\ call.url.query[i].value = value

\* the number of query parameters called name
CountParam(call, name) ==
  Cardinality({i \in 1..Len(call.url.query) : call.url.query[i].name = name})

\* slot r holds a tool invocation that has started
Invoked(r) == inv[r].name # ""

\* the ambient configuration resolves an API key
KeyResolved == Truthy(Or(env.ITGLUE_API_KEY, env.X_API_KEY))

\* the response is exactly one text block with this text, flagged as an error
IsErrorText(response, str) ==
  /\ ~response.thrown
  /\ response.isError = JsTrue
  /\ Len(response.content) = 1
  /\ response.content[1].type = "text"
  /\ response.content[1].text[1] = "lit"
  /\ response.content[1].text[2] = str

\* C1: whatever arguments search_passwords is given, show_password: true
\* included, every outbound request of the invocation carries
\* show_password=false, exactly once, and never show_password=true.
C1_SearchPasswordsForcesHidden ==
  \A r \in Slots :
    inv[r].name = "search_passwords" =>
      /\ (KeyResolved => Len(calls[r]) = 1)
      /\ \A i \in 1..Len(calls[r]) :
           /\ HasParam(calls[r][i], "show_password", "false")
           /\ ~HasParam(calls[r][i], "show_password", "true")
           /\ CountParam(calls[r][i], "show_password") = 1

\* search_passwords was called with show_password: true and has issued its request
C1_Witness ==
  \E r \in Slots :
    /\ inv[r].name = "search_passwords"
    /\ inv[r].args["show_password"] = JsTrue
    /\ pc[r] = "fetching"
    /\ Len(calls[r]) = 1

\* C2: get_password with an id forwards show_password=false exactly when the
\* argument is the boolean false, and show_password=true otherwise (omitted,
\* null, 0, "", true, ...).
C2_GetPasswordShowDefault ==
  \A r \in Slots :
    (inv[r].name = "get_password" /\ Truthy(inv[r].args["id"]) /\ KeyResolved) =>
      /\ Len(calls[r]) = 1
      /\ calls[r][1].url.path = "/passwords/" \o String(inv[r].args["id"])
      /\ CountParam(calls[r][1], "show_password") = 1
      /\ HasParam(calls[r][1], "show_password",
                  IF inv[r].args["show_password"] = JsFalse THEN "false" ELSE "true")

\* get_password was called with an id and a falsy show_password that is not
\* the boolean false, and has issued show_password=true
C2_Witness ==
  \E r \in Slots :
    /\ inv[r].name = "get_password"
    /\ Truthy(inv[r].args["id"])
    /\ inv[r].args["show_password"] = Num("0")
    /\ Len(calls[r]) = 1
    /\ HasParam(calls[r][1], "show_password", "true")

\* C3: with no API key resolved, a call of any tool name with any arguments
\* returns the credentials error with isError: true, constructs no client and
\* issues no fetch; a client is only ever constructed with, and a fetch only
\* ever sent with, a resolved key.
C3_NoKeyNoClient ==
  \A r \in Slots :
    /\ (Invoked(r) /\ ~KeyResolved) =>
         /\ pc[r] = "responded"
         /\ resp[r] = CredentialsError
         /\ resp[r].isError = JsTrue
         /\ clients[r] = 0
         /\ calls[r] = <<>>
    /\ (clients[r] > 0 \/ calls[r] # <<>>) => KeyResolved
    /\ \A i \in 1..Len(calls[r]) :
         calls[r][i].headers.xApiKey = "ITG.env"

\* a catalog tool with its required argument was called without any API key
C3_Witness ==
  \E r \in Slots :
    /\ ~KeyResolved
    /\ inv[r].name = "get_password"
    /\ Truthy(inv[r].args["id"])
    /\ pc[r] = "responded"
    /\ resp[r] = CredentialsError

RequiredArg(name) ==
  CASE name \in {"get_organization", "get_configuration", "get_password"} -> "id"
    [] name = "search_flexible_assets" -> "flexible_asset_type_id"
    [] OTHER -> "none"

\* C4: get_organization, get_configuration and get_password without id, and
\* search_flexible_assets without flexible_asset_type_id, return an error
\* block with isError: true and issue no fetch, with or without an API key.
C4_ValidationBeforeNetwork ==
  \A r \in Slots :
    (RequiredArg(inv[r].name) # "none" /\ inv[r].args[RequiredArg(inv[r].name)] = Undefined) =>
      /\ pc[r] = "responded"
      /\ ~resp[r].thrown
      /\ resp[r].isError = JsTrue
      /\ Len(resp[r].content) = 1
      /\ resp[r].content[1].text[1] = "lit"
      /\ calls[r] = <<>>

\* search_flexible_assets was called with an API key, other arguments, and no
\* flexible_asset_type_id
C4_Witness ==
  \E r \in Slots :
    /\ KeyResolved
    /\ inv[r].name = "search_flexible_assets"
    /\ inv[r].args["flexible_asset_type_id"] = Undefined
    /\ Truthy(inv[r].args["organization_id"])
    /\ IsErrorText(resp[r], "Error: flexible_asset_type_id is required")
    /\ calls[r] = <<>>

\* C5 as stated: a name outside the catalog is answered with
\* "Unknown tool: <name>" and isError: true for any arguments and any ambient
\* configuration.
C5_UnknownToolAnyConfiguration ==
  \A r \in Slots :
    (Invoked(r) /\ inv[r].name \notin ToolNames) =>
      IsErrorText(resp[r], "Unknown tool: " \o inv[r].name)

\* C5 amended: a name outside the catalog is answered, without throwing, with
\* "Unknown tool: <name>" and isError: true for any arguments when an API key
\* is resolved, and with the credentials error when none is.
C5_UnknownTool ==
  \A r \in Slots :
    (Invoked(r) /\ inv[r].name \notin ToolNames) =>
      /\ pc[r] = "responded"
      /\ calls[r] = <<>>
      /\ IF KeyResolved
         THEN IsErrorText(resp[r], "Unknown tool: " \o inv[r].name)
         ELSE resp[r] = CredentialsError

\* an unknown tool was called with an argument and with an API key
C5_Witness ==
  \E r \in Slots :
    /\ KeyResolved
    /\ inv[r].name = UnknownTool
    /\ Truthy(inv[r].args["id"])
    /\ IsErrorText(resp[r], "Unknown tool: delete_organization")

\* the fetch of slot r has settled with a failure of the client
Failed(r) ==
  /\ outcome[r].settle # "none"
  /\ \/ outcome[r].settle = "reject"
     \/ ~ok(outcome[r].status)
     \/ ~outcome[r].parses
     \/ Len(outcome[r].json.errors.list) > 0

\* C6: whatever the tool and however the client call fails (rejected fetch
\* with an Error or with another value, status outside 2xx, malformed body,
\* error envelope), the handler returns one text block "Error: <message>"
\* with isError: true and throws nothing, and the session stays open for the
\* next call.
C6_FailuresRendered ==
  \A r \in Slots :
    /\ ~resp[r].thrown
    /\ Failed(r) =>
         /\ pc[r] = "responded"
         /\ servers[r].open
         /\ resp[r].isError = JsTrue
         /\ Len(resp[r].content) = 1
         /\ resp[r].content[1].type = "text"
         /\ resp[r].content[1].text[1] = "lit"
         /\ outcome[r].settle = "reject" =>
              resp[r].content[1].text[2] = "Error: " \o outcome[r].reason.message
         /\ (outcome[r].settle = "resolve" /\ ~ok(outcome[r].status)) =>
              resp[r].content[1].text[2] =
                "Error: IT Glue API error (" \o ToString(outcome[r].status) \o "): "
                \o outcome[r].text
         /\ (outcome[r].settle = "resolve" /\ ok(outcome[r].status) /\ outcome[r].parses) =>
              resp[r].content[1].text[2] = "Error: IT Glue API error: Record not found"

\* a search tool's fetch was rejected with a value that is not an Error
C6_Witness ==
  \E r \in Slots :
    /\ inv[r].name = "search_documents"
    /\ outcome[r] = Rejected(NonError("socket hang up"))
    /\ IsErrorText(resp[r], "Error: socket hang up")

\* the request in slot r is a POST to /mcp without any API-key header
Keyless(r) ==
  /\ req[r].path = "/mcp"
  /\ req[r].method = "POST"
  /\ req[r].headers.xItglueApiKey = Undefined
  /\ req[r].headers.xApiKey = Undefined

\* C7: in gateway mode a POST to /mcp with neither API-key header is answered
\* 401 with a body naming X-ITGlue-API-Key; no server or transport is
\* created, no tool logic runs, and process.env is left as it was.
C7_GatewayRejectsKeyless ==
  \A r \in Slots :
    (isGatewayMode /\ Keyless(r)) =>
      /\ pc[r] = "done"
      /\ http[r].status = 401
      /\ http[r].body.required = <<"X-ITGlue-API-Key">>
      /\ servers[r] = [created |-> 0, open |-> FALSE]
      /\ inv[r] = NoInvocation
      /\ clients[r] = 0
      /\ calls[r] = <<>>
      /\ resp[r] = NoResponse
      /\ env = envBefore[r]

\* a keyless gateway request that carries base-URL and region headers, with
\* an ambient key configured
C7_Witness ==
  \E r \in Slots :
    /\ isGatewayMode
    /\ Keyless(r)
    /\ Truthy(req[r].headers.xItglueBaseUrl)
    /\ Truthy(req[r].headers.xItglueRegion)
    /\ Truthy(env.ITGLUE_API_KEY)
    /\ http[r].status = 401

\* C8 as stated: once a gateway request that was dispatched has finished (its
\* response closed), process.env holds the API key, base URL and region it
\* held before the request arrived.
C8_EnvRestoredAfterRequest ==
  \A r \in Slots :
    (isGatewayMode /\ pc[r] = "done" /\ servers[r].created = 1 /\ ~servers[r].open) =>
      /\ env.ITGLUE_API_KEY = envBefore[r].ITGLUE_API_KEY
      /\ env.ITGLUE_BASE_URL = envBefore[r].ITGLUE_BASE_URL
      /\ env.ITGLUE_REGION = envBefore[r].ITGLUE_REGION

\* the API key the request in slot r carries
HeaderKey(r) == Or(req[r].headers.xItglueApiKey, req[r].headers.xApiKey)

\* C9: a tool call sends the key that process.env holds when the handler
\* reads it, whichever request wrote it; so with two gateway requests in
\* flight there is an interleaving (C9_Witness) in which a tool call sends
\* the other request's key.
C9_CallSendsAmbientKey ==
  [][\A r \in Slots :
       (pc[r] = "connected" /\ pc'[r] = "fetching") =>
         /\ Len(calls'[r]) = 1
         /\ calls'[r][1].headers.xApiKey = String(env.ITGLUE_API_KEY)]_vars

\* two requests with different keys are in flight and the tool call of one
\* has sent the key of the other
C9_Witness ==
  \E r, q \in Slots :
    /\ r # q
    /\ pc[r] = "fetching" /\ servers[r].open
    /\ pc[q] \in {"connected", "fetching"} /\ servers[q].open
    /\ HeaderKey(r) # HeaderKey(q)
    /\ calls[r][1].headers.xApiKey = String(HeaderKey(q))

\* C10 as stated: search_documents issues its request against
\* /organizations/{organization_id}/relationships/documents, never against
\* /documents.
C10_DocumentsOrgScoped ==
  \A r \in Slots :
    inv[r].name = "search_documents" =>
      \A i \in 1..Len(calls[r]) :
        /\ calls[r][i].url.path # "/documents"
        /\ calls[r][i].url.path =
             "/organizations/" \o String(inv[r].args["organization_id"])
             \o "/relationships/documents"

\* the catalog entry for the tool called name in a list-tools result
Entry(catalog, name) ==
  CHOOSE t \in {catalog[i] : i \in 1..Len(catalog)} : t.name = name

\* C11 as stated: the catalog returned by list-tools declares id as required
\* for the three get tools, flexible_asset_type_id for search_flexible_assets,
\* organization_id for search_documents and nothing for the other search
\* tools and the health check, and every required field is a declared
\* property of its tool.
C11_CatalogRequired ==
  \A r \in Slots :
    tools[r] # <<>> =>
      /\ {tools[r][i].name : i \in 1..Len(tools[r])} = ToolNames
      /\ \A n \in {"get_organization", "get_configuration", "get_password"} :
            Entry(tools[r], n).required = <<"id">>
      /\ Entry(tools[r], "search_flexible_assets").required = <<"flexible_asset_type_id">>
      /\ Entry(tools[r], "search_documents").required = <<"organization_id">>
      /\ \A n \in {"search_organizations", "search_configurations", "search_passwords",
                    "itglue_health_check"} :
            Entry(tools[r], n).required = <<>>
      /\ \A i \in 1..Len(tools[r]) :
            \A j \in 1..Len(tools[r][i].required) :
              tools[r][i].required[j] \in tools[r][i].properties

\* the tools that return the result of client.request as it is
SearchTools ==
  {"search_organizations", "search_configurations", "search_passwords",
   "search_documents", "search_flexible_assets"}

\* slot r holds a search-tool invocation whose fetch resolved with a Response
\* and whose handler has returned
Searched(r) ==
  pc[r] = "responded" /\ inv[r].name \in SearchTools /\ outcome[r].settle = "resolve"

\* the response is one text block holding a serialised value, not flagged as
\* an error
Succeeded(response) ==
  /\ ~response.thrown
  /\ response.isError = Undefined
  /\ Len(response.content) = 1
  /\ response.content[1].type = "text"
  /\ response.content[1].text[1] = "json"

\* the {data, meta} value a successful search-tool response serialises
Result(r) == resp[r].content[1].text[2]

\* an error's detail, or its title when it has no detail
DetailOrTitle(e) == IF e.detail # Undefined THEN e.detail[2] ELSE e.title[2]

\* the details of one or two errors joined by ", "
Joined(list) ==
  IF Len(list) = 1 THEN DetailOrTitle(list[1])
  ELSE DetailOrTitle(list[1]) \o ", " \o DetailOrTitle(list[2])

Normalized(resource) ==
  IF resource.attributes = <<>>
  THEN << <<"id", resource.id>>, <<"type", Str("organizations")>> >>
  ELSE << <<"id", resource.id>>, <<"type", Str("organizations")>>,
          <<"name", Str("Acme")>>, <<"shortName", Str("ac")>> >>

\* C13: the data of a successful result is always a list: one element, the
\* normalized resource, when the envelope's data is a single object, and the
\* n normalized resources in the envelope's order when it is a list of n.
C13_DataIsAList ==
  \A r \in Slots :
    (Searched(r) /\ Succeeded(resp[r])) =>
      LET items == outcome[r].json.data.items
          data == Result(r).data
      IN /\ outcome[r].json.data.shape = "object" => Len(data) = 1
         /\ Len(data) = Len(items)
         /\ \A i \in 1..Len(items) : data[i] = Normalized(items[i])

\* an envelope whose data is one object has given a one-element list
C13_Witness ==
  \E r \in Slots :
    /\ Searched(r) /\ Succeeded(resp[r])
    /\ outcome[r].json.data.shape = "object"
    /\ Result(r).data = << << <<"id", Str("1")>>, <<"type", Str("organizations")>>,
                              <<"name", Str("Acme")>>, <<"shortName", Str("ac")>> >> >>

\* the five pagination fields
MetaFields == {"currentPage", "nextPage", "prevPage", "totalPages", "totalCount"}

\* C14: every successful result has all five pagination fields populated; when
\* the envelope has no meta object they are currentPage 1, totalPages 1,
\* nextPage null, prevPage null and totalCount the number of returned items.
C14_MetaDefaults ==
  \A r \in Slots :
    (Searched(r) /\ Succeeded(resp[r])) =>
      LET meta == Result(r).meta
      IN /\ \A f \in MetaFields : meta[f] # Undefined
         /\ ~outcome[r].json.meta.present =>
              /\ meta.currentPage = Num("1")
              /\ meta.totalPages = Num("1")
              /\ meta.nextPage = Null
              /\ meta.prevPage = Null
              /\ meta.totalCount = Num(ToString(Len(Result(r).data)))

\* an envelope of two resources without meta has given totalCount 2
C14_Witness ==
  \E r \in Slots :
    /\ Searched(r) /\ Succeeded(resp[r])
    /\ ~outcome[r].json.meta.present
    /\ Len(outcome[r].json.data.items) = 2
    /\ Result(r).meta.totalCount = Num("2")
    /\ Result(r).meta.currentPage = Num("1")

\* the base URL of the region the ambient configuration names, us when it
\* names none
RegionUrl ==
  CASE env.ITGLUE_REGION \in {Undefined, Str("us")} -> "https://api.itglue.com"
    [] env.ITGLUE_REGION = Str("eu") -> "https://api.eu.itglue.com"
    [] env.ITGLUE_REGION = Str("au") -> "https://api.au.itglue.com"

\* C15: every request goes to the base URL override when one is given (a
\* non-empty ITGLUE_BASE_URL), whatever the region; otherwise to the table
\* entry of the region, the us entry when no region is given.
C15_BaseUrl ==
  \A r \in Slots :
    \A i \in 1..Len(calls[r]) :
      calls[r][i].url.base =
        IF env.ITGLUE_BASE_URL \notin {Undefined, Str("")}
        THEN env.ITGLUE_BASE_URL[2]
        ELSE RegionUrl

\* a request went to the override although the region is eu
C15_Witness ==
  \E r \in Slots :
    /\ Len(calls[r]) = 1
    /\ env.ITGLUE_REGION = Str("eu")
    /\ env.ITGLUE_BASE_URL = Str("https://itglue.example")
    /\ calls[r][1].url.base = "https://itglue.example"

\* the key the request in slot r should use: in gateway mode the
\* x-itglue-api-key header, else the x-api-key header; in ambient mode
\* ITGLUE_API_KEY as it was when the request arrived, else X_API_KEY
PreferredKey(r) ==
  IF isGatewayMode
  THEN IF req[r].headers.xItglueApiKey # Undefined
       THEN req[r].headers.xItglueApiKey ELSE req[r].headers.xApiKey
  ELSE IF envBefore[r].ITGLUE_API_KEY # Undefined
       THEN envBefore[r].ITGLUE_API_KEY ELSE envBefore[r].X_API_KEY

\* C16: with one request at a time, a tool call sends the preferred key of
\* its credential mode -- ITGLUE_API_KEY before X_API_KEY in ambient mode, the
\* x-itglue-api-key header before the x-api-key header in gateway mode, never
\* a key the ambient configuration held before the gateway request -- and
\* when neither ambient variable is set the key is unresolved: the call gets
\* the credentials error and nothing is sent.
C16_PrimaryKeyPreferred ==
  \A r \in Slots :
    (transport = "http" /\ Invoked(r)) =>
      IF PreferredKey(r) = Undefined
      THEN /\ ~isGatewayMode
           /\ resp[r] = CredentialsError
           /\ calls[r] = <<>>
      ELSE /\ inv[r].name = "itglue_health_check" => Len(calls[r]) = 1
           /\ \A i \in 1..Len(calls[r]) :
                calls[r][i].headers.xApiKey = PreferredKey(r)[2]

\* a gateway request with only the x-api-key header arrived while the ambient
\* configuration held a key of its own, and its tool call sent the header's key
C16_Witness ==
  \E r \in Slots :
    /\ isGatewayMode
    /\ envBefore[r].ITGLUE_API_KEY = Str("ITG.env")
    /\ req[r].headers.xItglueApiKey = Undefined
    /\ req[r].headers.xApiKey = Str("ITG.two")
    /\ Len(calls[r]) = 1
    /\ calls[r][1].headers.xApiKey = "ITG.two"

\* the request in slot r was answered by the listener itself: no server or
\* transport was created, no tool logic ran and process.env is as it was
NotDispatched(r) ==
  /\ pc[r] = "done"
  /\ servers[r].created = 0
  /\ ~Invoked(r) /\ clients[r] = 0 /\ calls[r] = <<>>
  /\ env = envBefore[r]

\* C17: an HTTP request is answered by its path and method: /health with 200
\* and {status, transport, authMode, timestamp} in both auth modes, with or
\* without credentials; /mcp with a method other than POST with 405 and a
\* JSON-RPC error; any other path with 404 and the endpoints /mcp and /health;
\* none of these reads credentials or dispatches. Only a POST to /mcp gets a
\* server and transport, or the 401 of the gateway credential check.
C17_Routing ==
  \A r \in Slots :
    req[r].path # "" =>
      IF req[r].path = "/health"
      THEN /\ NotDispatched(r)
           /\ http[r].status = 200
           /\ DOMAIN http[r].body = {"status", "transport", "authMode", "timestamp"}
           /\ http[r].body.status = "ok"
           /\ http[r].body.transport = "http"
           /\ http[r].body.authMode = IF isGatewayMode THEN "gateway" ELSE "env"
      ELSE IF req[r].path = "/mcp" /\ req[r].method # "POST"
      THEN /\ NotDispatched(r)
           /\ http[r].status = 405
           /\ http[r].body.jsonrpc = "2.0"
           /\ http[r].body.error = [code |-> -32000, message |-> "Method not allowed"]
           /\ http[r].body.id = Null
      ELSE IF req[r].path # "/mcp"
      THEN /\ NotDispatched(r)
           /\ http[r].status = 404
           /\ http[r].body.endpoints = <<"/mcp", "/health">>
      ELSE \/ http[r].status = 401 /\ isGatewayMode /\ Keyless(r) /\ NotDispatched(r)
           \/ http[r].status \in {0, 200} /\ servers[r].created = 1

\* /health was answered 200 in gateway mode although neither the request nor
\* the ambient configuration holds a key
C17_Witness ==
  \E r \in Slots :
    /\ isGatewayMode
    /\ req[r].path = "/health"
    /\ req[r].headers.xItglueApiKey = Undefined /\ req[r].headers.xApiKey = Undefined
    /\ ~KeyResolved
    /\ http[r].status = 200
    /\ http[r].body.authMode = "gateway"

\* the value request returns for a pagination field whose default is d: the
\* supplied value when it is truthy, d otherwise
SuppliedOr(v, d) == IF v \in {Undefined, Null, Num("0")} THEN d ELSE v

\* C18 as stated: every pagination field the upstream meta object supplies is
\* returned unchanged, a supplied 0 included; a default is returned only for
\* a field the response does not have.
C18_MetaUnchanged ==
  \A r \in Slots :
    (Searched(r) /\ Succeeded(resp[r])) =>
      LET m == outcome[r].json.meta
          meta == Result(r).meta
          n == Num(ToString(Len(Result(r).data)))
      IN /\ meta.currentPage = IF m.currentPage # Undefined THEN m.currentPage ELSE Num("1")
         /\ meta.nextPage = IF m.nextPage # Undefined THEN m.nextPage ELSE Null
         /\ meta.prevPage = IF m.prevPage # Undefined THEN m.prevPage ELSE Null
         /\ meta.totalPages = IF m.totalPages # Undefined THEN m.totalPages ELSE Num("1")
         /\ meta.totalCount = IF m.totalCount # Undefined THEN m.totalCount ELSE n

\* C18, amended: every pagination field the upstream meta object supplies with
\* a truthy value is returned unchanged; a field that is absent, null or 0 is
\* returned as its default: currentPage 1, totalPages 1, nextPage null,
\* prevPage null, totalCount the number of returned items.
C18_MetaTruthyUnchanged ==
  \A r \in Slots :
    (Searched(r) /\ Succeeded(resp[r])) =>
      LET m == outcome[r].json.meta
          meta == Result(r).meta
          n == Num(ToString(Len(Result(r).data)))
      IN /\ meta.currentPage = SuppliedOr(m.currentPage, Num("1"))
         /\ meta.nextPage = SuppliedOr(m.nextPage, Null)
         /\ meta.prevPage = SuppliedOr(m.prevPage, Null)
         /\ meta.totalPages = SuppliedOr(m.totalPages, Num("1"))
         /\ meta.totalCount = SuppliedOr(m.totalCount, n)

\* a meta object whose fields are all 0, with two resources, has given
\* currentPage 1, totalPages 1, nextPage null and totalCount 2; and a meta
\* object with truthy fields is returned as supplied
C18_Witness ==
  \E r \in Slots :
    /\ Searched(r) /\ Succeeded(resp[r])
    /\ outcome[r].json.meta = MetaZero
    /\ Result(r).meta = [currentPage |-> Num("1"), nextPage |-> Null, prevPage |-> Null,
                         totalPages |-> Num("1"), totalCount |-> Num("2")]

\* C19 as stated: a search request carries page[size] = page_size when the
\* argument is supplied and 50 only when it is absent, page[number] =
\* page_number when supplied and 1 only when absent; a supplied falsy value
\* such as 0 reaches the query-string builder as it is and gives no
\* page[size] / page[number] parameter.
C19_PageSuppliedOrAbsent ==
  \A r \in Slots :
    inv[r].name \in SearchTools =>
      \A i \in 1..Len(calls[r]) :
        LET size == inv[r].args["page_size"]
            number == inv[r].args["page_number"]
        IN /\ IF size \in {Undefined, Null} THEN HasParam(calls[r][i], "page[size]", "50")
              ELSE IF Truthy(size) THEN HasParam(calls[r][i], "page[size]", String(size))
              ELSE CountParam(calls[r][i], "page[size]") = 0
           /\ IF number \in {Undefined, Null} THEN HasParam(calls[r][i], "page[number]", "1")
              ELSE IF Truthy(number) THEN HasParam(calls[r][i], "page[number]", String(number))
              ELSE CountParam(calls[r][i], "page[number]") = 0

\* C19, amended: a search request carries exactly one page[size] and one
\* page[number] parameter: page_size when that argument is truthy and 50
\* otherwise, page_number when truthy and 1 otherwise; a supplied 0 is
\* replaced by the default before it reaches the query-string builder.
C19_PageDefaults ==
  \A r \in Slots :
    inv[r].name \in SearchTools =>
      \A i \in 1..Len(calls[r]) :
        LET size == inv[r].args["page_size"]
            number == inv[r].args["page_number"]
        IN /\ CountParam(calls[r][i], "page[size]") = 1
           /\ CountParam(calls[r][i], "page[number]") = 1
           /\ HasParam(calls[r][i], "page[size]", IF Truthy(size) THEN String(size) ELSE "50")
           /\ HasParam(calls[r][i], "page[number]",
                       IF Truthy(number) THEN String(number) ELSE "1")

\* a search called with page_size 0 and page_number 7 has requested
\* page[size]=50 and page[number]=7
C19_Witness ==
  \E r \in Slots :
    /\ inv[r].name \in SearchTools
    /\ inv[r].args["page_size"] = Num("0")
    /\ inv[r].args["page_number"] = Num("7")
    /\ Len(calls[r]) = 1
    /\ HasParam(calls[r][1], "page[size]", "50")
    /\ HasParam(calls[r][1], "page[number]", "7")

\* the filter arguments of a search tool's schema: every declared property
\* but the paging and sorting ones
FilterArgs(name) == Properties(name) \ {"page_size", "page_number", "sort"}

\* the query parameter a filter argument is sent as
FilterName(a) ==
  CASE a = "name" -> "filter[name]"
    [] a = "organization_type_id" -> "filter[organization-type-id]"
    [] a = "organization_status_id" -> "filter[organization-status-id]"
    [] a = "psa_id" -> "filter[psa-id]"
    [] a = "organization_id" -> "filter[organization-id]"
    [] a = "configuration_type_id" -> "filter[configuration-type-id]"
    [] a = "configuration_status_id" -> "filter[configuration-status-id]"
    [] a = "serial_number" -> "filter[serial-number]"
    [] a = "rmm_id" -> "filter[rmm-id]"
    [] a = "password_category_id" -> "filter[password-category-id]"
    [] a = "url" -> "filter[url]"
    [] a = "username" -> "filter[username]"
    [] a = "flexible_asset_type_id" -> "filter[flexible-asset-type-id]"

\* the query parameters of a call that are none of sort, page[...] and
\* show_password
FilterParams(call) ==
  {i \in 1..Len(call.url.query) :
     call.url.query[i].name \notin {"sort", "page[size]", "page[number]", "show_password"}}

\* C20: whatever the arguments, a search request carries filter[k]=v exactly
\* once for each filter argument of the tool's schema whose value is truthy, k
\* being the hyphenated key and v the stringified value, and no other filter
\* parameter: none for an absent or falsy argument, none at all when no
\* argument is truthy; a search_flexible_assets request always carries
\* filter[flexible-asset-type-id].
C20_FilterParams ==
  \A r \in Slots :
    inv[r].name \in SearchTools =>
      \A i \in 1..Len(calls[r]) :
        LET truthy == {a \in FilterArgs(inv[r].name) : Truthy(inv[r].args[a])}
        IN /\ \A a \in FilterArgs(inv[r].name) :
                IF a \in truthy
                THEN /\ HasParam(calls[r][i], FilterName(a), String(inv[r].args[a]))
                     /\ CountParam(calls[r][i], FilterName(a)) = 1
                ELSE CountParam(calls[r][i], FilterName(a)) = 0
           /\ Cardinality(FilterParams(calls[r][i])) = Cardinality(truthy)
           /\ inv[r].name = "search_flexible_assets" =>
                CountParam(calls[r][i], "filter[flexible-asset-type-id]") = 1

\* search_configurations called with a serial number and rmm_id 0 has sent
\* filter[serial-number] and no other filter parameter
C20_Witness ==
  \E r \in Slots :
    /\ inv[r].name = "search_configurations"
    /\ inv[r].args["serial_number"] = Str("acme")
    /\ inv[r].args["rmm_id"] = Num("0")
    /\ Len(calls[r]) = 1
    /\ HasParam(calls[r][1], "filter[serial-number]", "acme")
    /\ Cardinality(FilterParams(calls[r][1])) = 1

\* the invocation in slot r fails a check that precedes the client call: no
\* API key, an unknown tool name, or a required argument that is falsy
FailsValidation(r) ==
  /\ Invoked(r)
  /\ \/ ~KeyResolved
     \/ inv[r].name \notin ToolNames
     \/ RequiredArg(inv[r].name) # "none" /\ ~Truthy(inv[r].args[RequiredArg(inv[r].name)])

\* C21: a tool invocation issues at most one outbound request, a GET whose
\* x-api-key header is the resolved API key; an invocation that fails the
\* credential or argument validation or names an unknown tool issues none;
\* and when the upstream call fails the failure is returned with that one
\* request issued, no second one.
C21_AtMostOneGet ==
  \A r \in Slots :
    /\ Len(calls[r]) <= 1
    /\ \A i \in 1..Len(calls[r]) :
         /\ calls[r][i].method = "GET"
         /\ calls[r][i].headers.xApiKey = String(Or(env.ITGLUE_API_KEY, env.X_API_KEY))
    /\ FailsValidation(r) => (calls[r] = <<>> /\ pc[r] = "responded")
    /\ (Invoked(r) /\ ~FailsValidation(r)) => Len(calls[r]) = 1
    /\ Failed(r) => (pc[r] = "responded" /\ Len(calls[r]) = 1 /\ resp[r].isError = JsTrue)

\* a rejected fetch has been reported with one request issued
C21_Witness ==
  \E r \in Slots :
    /\ outcome[r] = Rejected(ErrorObj("fetch failed"))
    /\ pc[r] = "responded"
    /\ Len(calls[r]) = 1
    /\ calls[r][1].method = "GET"
    /\ calls[r][1].headers.xApiKey = "ITG.env"
    /\ IsErrorText(resp[r], "Error: fetch failed")

\* what a request's own server, transport and handler hold
Session(r) == <<servers[r], inv[r], clients[r], calls[r], pending[r], outcome[r], resp[r]>>

\* C22: under the HTTP transport, with several requests in flight, a POST to
\* /mcp that passes the checks gets one newly constructed server and
\* transport with nothing left of an earlier request; a step of one request
\* changes no other request's server or handler state; and once the
\* request's response has closed and its handler is done, its server and
\* transport are closed.
C22_FreshServerPerRequest ==
  [][\A r \in Slots :
       /\ pc'[r] \in {"connected", "fetching", "responded"} => servers'[r].created = 1
       /\ (pc[r] \in {"idle", "done"} /\ pc'[r] = "connected") =>
            /\ servers'[r] = [created |-> 1, open |-> TRUE]
            /\ inv'[r] = NoInvocation /\ clients'[r] = 0 /\ calls'[r] = <<>>
            /\ pending'[r] = NoPending /\ resp'[r] = NoResponse
       /\ Session(r)' # Session(r) => \A q \in Slots \ {r} : Session(q)' = Session(q)
       /\ (servers[r].open /\ ~servers'[r].open) => pc[r] \in {"connected", "fetching", "responded"}
       /\ pc'[r] = "done" => ~servers'[r].open]_vars

\* two requests are being served at once, each by a server of its own, one of
\* them already in its tool call
C22_Witness ==
  \E r, q \in Slots :
    /\ r # q
    /\ servers[r] = [created |-> 1, open |-> TRUE] /\ pc[r] = "fetching"
    /\ servers[q] = [created |-> 1, open |-> TRUE] /\ pc[q] = "connected"

\* the characters of a string
Chars(str) == {str[i] : i \in 1..Len(str)}

\* C23 as stated: for a string without a hyphen, kebabToCamel and camelToKebab
\* both return the string unchanged.
C23_NoHyphenUnchanged ==
  (kind = "string" /\ Len(applied) = 1 /\ "-" \notin Chars(subject)) => cur = subject

\* C23, amended: kebabToCamel returns a string without a hyphen unchanged,
\* and camelToKebab returns a string without an uppercase letter unchanged.
C23_NoHyphenNoUpperUnchanged ==
  (kind = "string" /\ Len(applied) = 1) =>
    /\ (applied[1] = "kebabToCamel" /\ "-" \notin Chars(subject)) => cur = subject
    /\ (applied[1] = "camelToKebab" /\ Chars(subject) \cap UpperCase = {}) => cur = subject

\* kebabToCamel was given a string of a lowercase letter, an uppercase letter
\* and a digit and returned it as it was
C23_Witness ==
  /\ kind = "string"
  /\ subject = <<"a", "A", "1">>
  /\ applied = <<"kebabToCamel">>
  /\ cur = <<"a", "A", "1">>

\* C24: for a string made only of lowercase letters and hyphens,
\* camelToKebab(kebabToCamel(s)) = s.
C24_RoundTrip ==
  (kind = "string" /\ applied = <<"kebabToCamel", "camelToKebab">>
   /\ Chars(subject) \subseteq LowerCase \cup {"-"}) => cur = subject

\* the round trip of a-b, whose camel form differs from it, has given a-b
C24_Witness ==
  /\ kind = "string"
  /\ subject = <<"a", "-", "b">>
  /\ kebabToCamel(subject) = <<"a", "B">>
  /\ applied = <<"kebabToCamel", "camelToKebab">>
  /\ cur = <<"a", "-", "b">>

\* the camel-case name of a raw key
CamelName(key) ==
  CASE key = Kab -> "aB"
    [] key = Kcd -> "cD"
    [] key = Kn -> "n"

\* out is the object in with every key rewritten to camel case, every value
\* that is a non-array object converted in the same way, and every other
\* value as it is
RECURSIVE Converted(_, _)
Converted(in, out) ==
  /\ Len(out) = Len(in)
  /\ \A i \in 1..Len(in) :
       /\ out[i][1] = CamelName(in[i][1])
       /\ IF in[i][2][1] = "object"
          THEN out[i][2][1] = "object" /\ Converted(in[i][2][2], out[i][2][2])
          ELSE out[i][2] = in[i][2]

\* C25: convertKeysToCamel returns a mapping with every key in camel case,
\* every non-array object value converted recursively and every other value
\* (scalars, null, arrays and the objects inside arrays) unchanged, and it
\* leaves its argument as it was.
C25_ConvertKeysDeep ==
  [][(kind = "object" /\ applied' # applied) =>
       /\ subject' = subject
       /\ Converted(subject, cur')]_vars

\* the nested object was converted two levels deep, the object inside its
\* array kept its raw key
C25_Witness ==
  /\ kind = "object"
  /\ applied = <<"convertKeysToCamel">>
  /\ cur = << <<"aB", Obj(<< <<"cD", Obj(<< <<"aB", Str("x")>> >>)>>, <<"n", Null>> >>)>>,
              <<"cD", Arr(<<Obj(<< <<Kab, Str("y")>> >>), Str("z")>>)>>,
              <<"n", Num("7")>> >>

\* C26: a tool invocation returns one response: at once when it makes no
\* outbound call, and otherwise when its one outbound call resolves or
\* rejects, not before; the response, once returned, is not replaced; and an
\* invocation whose outbound call completes does return.
C26_ReturnsOnce ==
  /\ [][\A r \in Slots :
          /\ (pc[r] = "connected" /\ Invoked(r)') =>
               IF calls'[r] = <<>>
               THEN pc'[r] = "responded" /\ resp'[r] # NoResponse
               ELSE pc'[r] = "fetching" /\ resp'[r] = NoResponse /\ Len(calls'[r]) = 1
          /\ (pc[r] = "fetching" /\ outcome'[r] # outcome[r]) =>
               /\ outcome'[r].settle \in {"resolve", "reject"}
               /\ pc'[r] = "responded" /\ resp'[r] # NoResponse
          /\ (pc[r] = "fetching" /\ outcome'[r] = outcome[r]) => pc'[r] = "fetching"
          /\ (pc[r] = "responded" /\ pc'[r] = "responded") => resp'[r] = resp[r]]_vars
  /\ \A r \in Slots : (pc[r] = "fetching") ~> (pc[r] = "responded")

\* get_organization has returned the resource after its call resolved
C26_Witness ==
  \E r \in Slots :
    /\ pc[r] = "responded"
    /\ inv[r].name = "get_organization"
    /\ Len(calls[r]) = 1
    /\ outcome[r].settle = "resolve" /\ outcome[r].status = 299
    /\ Succeeded(resp[r])

\* C27: a gateway request that carries an API key header but neither a base
\* URL header nor a region header sends its outbound call to the us entry of
\* the region table, whatever headers earlier requests carried.
C27_HostFromOwnHeaders ==
  \A r \in Slots :
    ( /\ isGatewayMode
      /\ Truthy(HeaderKey(r))
      /\ req[r].headers.xItglueBaseUrl = Undefined
      /\ req[r].headers.xItglueRegion = Undefined
      /\ Len(calls[r]) >= 1 ) =>
      /\ calls[r][1].url.base = "https://api.itglue.com"
      /\ calls[r][1].headers.xApiKey = String(HeaderKey(r))

\* the value of own property k of an object kept as a sequence of entries
Field(obj, k) ==
  IF \E i \in 1..Len(obj) : obj[i][1] = k
  THEN obj[CHOOSE i \in 1..Len(obj) : obj[i][1] = k][2]
  ELSE Undefined

\* C28: the normalized form of a resource has the id and the type of the raw
\* resource, also when the raw attributes hold keys named id or type.
C28_IdTypeKept ==
  (kind = "resource" /\ applied = <<"deserializeResource">>) =>
    /\ Field(cur, "id") = subject.id
    /\ Field(cur, "type") = subject.type

\* the three base URLs of the region table
TableUrls ==
  {"https://api.itglue.com", "https://api.eu.itglue.com", "https://api.au.itglue.com"}

\* C29: with no base URL override, whatever region value reaches the client
\* (unset, us, eu, au or any other string), the outbound request goes to one
\* of the three URLs of the region table.
C29_RegionTableUrl ==
  \A r \in Slots :
    (Len(calls[r]) >= 1 /\ ~Truthy(env.ITGLUE_BASE_URL)) =>
      calls[r][1].url.base \in TableUrls

\* the client call of slot r has settled and client.request threw: the fetch
\* failed as in Failed(r), or the parsed body holds no data member to
\* normalise
Excepted(r) ==
  \/ Failed(r)
  \/ outcome[r].settle = "resolve" /\ outcome[r].json.data.shape = "missing"

\* C30: a call-tool response carries isError: true exactly when the
\* invocation ended without credentials, without a required argument, with an
\* unknown tool name or in the catch block; a response built from a
\* successful upstream call carries no isError; every response is exactly one
\* content block of type text.
C30_IsErrorExactly ==
  \A r \in Slots :
    (pc[r] = "responded" /\ Invoked(r)) =>
      /\ ~resp[r].thrown
      /\ Len(resp[r].content) = 1
      /\ resp[r].content[1].type = "text"
      /\ resp[r].isError \in {JsTrue, Undefined}
      /\ resp[r].isError = JsTrue <=> (FailsValidation(r) \/ Excepted(r))
      /\ (outcome[r].settle = "resolve" /\ ~Excepted(r)) => Succeeded(resp[r])

\* a get tool's call resolved with an empty list: one text block, no isError
C30_Witness ==
  \E r \in Slots :
    /\ pc[r] = "responded"
    /\ inv[r].name = "get_configuration"
    /\ outcome[r] = Resolved(200, "{}", TRUE, Envelope("array", <<>>, NoMeta))
    /\ Len(resp[r].content) = 1
    /\ resp[r].isError = Undefined

====
